---- MODULE Spec2Model ----
(***************************************************************************)
(* The agent execution core of aish: the conversation loop App::run, the   *)
(* approval policy App::should_execute, the dispatcher App::execute_action *)
(* and the security gate SecurityValidator.                                *)
(*                                                                         *)
(* Text (String, &str, PathBuf) is a sequence of one-character or          *)
(* multi-character tokens; concatenation is \o.  Option<T> is a sequence   *)
(* of length at most one: None is <<>> and Some(x) is <<x>>.               *)
(***************************************************************************)
EXTENDS Integers, Sequences, FiniteSets, TLC

(***************************************************************************)
(* Bounds of the model.                                                    *)
(***************************************************************************)
MaxModelCalls == 2   \* calls of LlmClient::chat over the process lifetime
MaxToolCalls == 3    \* tool invocations emitted by the model over the lifetime
MaxPrompts == 2      \* REPL submissions after the initial prompt

None == <<>>
Some(x) == <<x>>
IsSome(o) == Len(o) = 1
Unwrap(o) == o[1]

Ok(v) == [ok |-> TRUE, v |-> v]
Err(e) == [ok |-> FALSE, e |-> e]

(***************************************************************************)
(* Text helpers.                                                           *)
(***************************************************************************)
Range(s) == {s[i] : i \in 1..Len(s)}

\* the suffix of s that starts at position i
Drop(s, i) == SubSeq(s, i, Len(s))

\* str::contains / Vec::contains on a contiguous run of tokens
Contains(s, t) ==
    \E i \in 1..(Len(s) + 1) :
        /\ i + Len(t) - 1 <= Len(s)
        /\ SubSeq(s, i, i + Len(t) - 1) = t

\* positions of the token c in s
Positions(s, c) == {i \in 1..Len(s) : s[i] = c}

SetMax(S) == CHOOSE m \in S : \A x \in S : x <= m

\* str::split on the one-character separator c
RECURSIVE Split(_, _)
Split(s, c) ==
    IF Positions(s, c) = {} THEN <<s>>
    ELSE LET i == CHOOSE k \in Positions(s, c) : \A j \in Positions(s, c) : k <= j
         IN <<SubSeq(s, 1, i - 1)>> \o Split(Drop(s, i + 1), c)

\* [T]::join with a separator token
RECURSIVE Join(_, _)
Join(parts, sep) ==
    IF Len(parts) = 0 THEN <<>>
    ELSE IF Len(parts) = 1 THEN parts[1]
    ELSE parts[1] \o <<sep>> \o Join(Tail(parts), sep)

\* str::replace of the one-token pattern c by the text t
RECURSIVE Replace(_, _, _)
Replace(s, c, t) ==
    IF Len(s) = 0 THEN <<>>
    ELSE (IF s[1] = c THEN t ELSE <<s[1]>>) \o Replace(Tail(s), c, t)

RECURSIVE SelectSeqIdx(_, _, _)
SelectSeqIdx(s, keep, i) ==
    IF i > Len(s) THEN <<>>
    ELSE (IF i \in keep THEN <<s[i]>> ELSE <<>>) \o SelectSeqIdx(s, keep, i + 1)

(***************************************************************************)
(* std::path::PathBuf on a Unix target.                                    *)
(***************************************************************************)
\* Path::is_absolute
is_absolute(path) == Len(path) > 0 /\ path[1] = "/"

\* Path::components: the root, then the names between separators; empty
\* names and "." after the first position are dropped, ".." is kept
components(path) ==
    LET raw == Split(path, "/")
        keep == {i \in 1..Len(raw) :
                    /\ raw[i] # <<>>
                    /\ (raw[i] = <<".">> => (i = 1))}
    IN (IF is_absolute(path) THEN << <<"/">> >> ELSE <<>>)
       \o SelectSeqIdx(raw, keep, 1)

\* Path::starts_with: base is a prefix of path, component by component
starts_with(path, base) ==
    LET p == components(path)
        b == components(base)
    IN Len(b) <= Len(p) /\ SubSeq(p, 1, Len(b)) = b

\* Path::file_name: the last component when it is a normal name
file_name(path) ==
    LET c == components(path)
    IN IF Len(c) = 0 THEN None
       ELSE LET l == c[Len(c)]
            IN IF l \in {<<"/">>, <<".">>, <<".", ".">>} THEN None ELSE Some(l)

\* Path::extension: the part of the file name after its last dot, unless
\* the name has no dot or only a leading one
extension(path) ==
    IF ~IsSome(file_name(path)) THEN None
    ELSE LET n == Unwrap(file_name(path))
             dots == Positions(n, ".")
         IN IF dots = {} \/ SetMax(dots) = 1 THEN None
            ELSE Some(Drop(n, SetMax(dots) + 1))

\* Path::parent
parent(path) ==
    LET c == components(path)
    IN IF Len(c) = 0 \/ c = << <<"/">> >> THEN None
       ELSE IF is_absolute(path)
            THEN Some(<<"/">> \o Join(SubSeq(c, 2, Len(c) - 1), "/"))
            ELSE Some(Join(SubSeq(c, 1, Len(c) - 1), "/"))

(***************************************************************************)
(* regex::Regex for the pattern language of the model: literal characters, *)
(* "." (any character) and a postfix "*".  A pattern with a "*" that       *)
(* follows nothing or with an unclosed "(" does not compile.               *)
(***************************************************************************)
RECURSIVE regex_atoms(_)
regex_atoms(p) ==
    IF Len(p) = 0 THEN <<>>
    ELSE IF Len(p) >= 2 /\ p[2] = "*"
         THEN <<[ch |-> p[1], star |-> TRUE]>> \o regex_atoms(Drop(p, 3))
         ELSE <<[ch |-> p[1], star |-> FALSE]>> \o regex_atoms(Tail(p))

\* Regex::new
regex_new(p) ==
    IF \/ "(" \in Range(p)
       \/ (Len(p) > 0 /\ p[1] = "*")
       \/ \E i \in 1..(Len(p) - 1) : p[i] = "*" /\ p[i + 1] = "*"
    THEN Err("regex syntax")
    ELSE Ok(regex_atoms(p))

atom_matches(a, c) == a.ch = "." \/ a.ch = c

\* the atoms match a prefix of s
RECURSIVE match_here(_, _)
match_here(atoms, s) ==
    IF Len(atoms) = 0 THEN TRUE
    ELSE IF atoms[1].star
         THEN \/ match_here(Tail(atoms), s)
              \/ (Len(s) > 0 /\ atom_matches(atoms[1], s[1])
                    /\ match_here(atoms, Tail(s)))
         ELSE Len(s) > 0 /\ atom_matches(atoms[1], s[1])
                /\ match_here(Tail(atoms), Tail(s))

\* Regex::is_match: an unanchored search
is_match(atoms, s) == \E i \in 1..(Len(s) + 1) : match_here(atoms, Drop(s, i))

(***************************************************************************)
(* Errors.  Every error of the program is an anyhow::Error; the model      *)
(* keeps the type of the underlying error and its message.                 *)
(***************************************************************************)
Error(type, msg) == [type |-> type, msg |-> msg]

(***************************************************************************)
(* serde_json: the argument blob of a tool invocation is a string; wf says *)
(* whether it is well-formed JSON, fields is the object it denotes.  A     *)
(* field is None when absent; a present value is a string or a number.     *)
(***************************************************************************)
JStr(s) == [t |-> "str", s |-> s]
JNum == [t |-> "num", s |-> <<>>]
JObject(command, path, content) ==
    [command |-> command, path |-> path, content |-> content]

\* serde_json::from_str
from_str(blob) ==
    IF blob.wf THEN Ok(blob.fields)
    ELSE Err(Error("serde_json", <<"expected value">>))

\* serde_json::Value::to_string
to_string(value) == [wf |-> TRUE, fields |-> value]

\* Value::get(key).and_then(as_str), and Value[key].as_str()
get_str(value, key) ==
    IF IsSome(value[key]) /\ Unwrap(value[key]).t = "str"
    THEN Some(Unwrap(value[key]).s)
    ELSE None

(***************************************************************************)
(* config.rs: the configuration directory and the default configuration.   *)
(***************************************************************************)
\* dirs::home_dir()
HomeDir == <<"/", "h">>

\* ConfigManager::new: config_dir = home.join(".aish")
ConfigDir == HomeDir \o <<"/", ".", "a", "i", "s", "h">>

DotEnv == <<".", "e", "n", "v">>

AllAllowed ==
    [fs_makedir |-> TRUE, fs_makefile |-> TRUE, fs_writefile |-> TRUE,
     fs_readfile |-> TRUE, fs_listdir |-> TRUE, shell |-> TRUE]

\* impl Default for Config
DefaultConfig ==
    [security |->
        [allow_absolute_paths |-> FALSE,
         allow_config_path_access |-> FALSE,
         blocked_extensions |-> <<DotEnv>>,
         allowed_operations |-> AllAllowed],
     whitelist |-> <<>>]

(***************************************************************************)
(* security.rs: SecurityValidator.  self is [config, ignore_patterns].     *)
(***************************************************************************)
\* the filter_map of SecurityValidator::new: the patterns that compile
RECURSIVE compile_ignore(_)
compile_ignore(patterns) ==
    IF Len(patterns) = 0 THEN <<>>
    ELSE LET r == regex_new(Replace(patterns[1], "*", <<".", "*">>))
         IN (IF r.ok THEN <<r.v>> ELSE <<>>) \o compile_ignore(Tail(patterns))

\* SecurityValidator::new
SecurityValidator_new(cfg, patterns) ==
    [config |-> cfg, ignore_patterns |-> compile_ignore(patterns)]

\* a faulty variant of validate_path: the extension is tested before the
\* configuration directory
validate_path_extension_first(self, path) ==
    IF is_absolute(path) /\ ~self.config.security.allow_absolute_paths
    THEN Err(Error("anyhow", <<"Absolute paths are not allowed">>))
    ELSE IF /\ IsSome(extension(path))
            /\ (<<".">> \o Unwrap(extension(path)))
                   \in Range(self.config.security.blocked_extensions)
    THEN Err(Error("anyhow", <<"File extension ">>
                               \o (<<".">> \o Unwrap(extension(path)))
                               \o <<" is blocked">>))
    ELSE IF /\ ~self.config.security.allow_config_path_access
            /\ starts_with(path, ConfigDir)
    THEN Err(Error("anyhow",
                   <<"Access to configuration directory is not allowed">>))
    ELSE IF \E i \in 1..Len(self.ignore_patterns) :
                is_match(self.ignore_patterns[i], path)
    THEN Err(Error("anyhow", <<"Path matches ignore pattern">>))
    ELSE Ok(<<>>)

\* a faulty variant of validate_path: allow_absolute_paths is read the wrong
\* way round
validate_path_absolute_inverted(self, path) ==
    IF is_absolute(path) /\ self.config.security.allow_absolute_paths
    THEN Err(Error("anyhow", <<"Absolute paths are not allowed">>))
    ELSE IF /\ ~self.config.security.allow_config_path_access
            /\ starts_with(path, ConfigDir)
    THEN Err(Error("anyhow",
                   <<"Access to configuration directory is not allowed">>))
    ELSE IF /\ IsSome(extension(path))
            /\ (<<".">> \o Unwrap(extension(path)))
                   \in Range(self.config.security.blocked_extensions)
    THEN Err(Error("anyhow", <<"File extension ">>
                               \o (<<".">> \o Unwrap(extension(path)))
                               \o <<" is blocked">>))
    ELSE IF \E i \in 1..Len(self.ignore_patterns) :
                is_match(self.ignore_patterns[i], path)
    THEN Err(Error("anyhow", <<"Path matches ignore pattern">>))
    ELSE Ok(<<>>)

\* SecurityValidator::validate_path
validate_path(self, path) ==
    IF is_absolute(path) /\ ~self.config.security.allow_absolute_paths
    THEN Err(Error("anyhow", <<"Absolute paths are not allowed">>))
    ELSE IF /\ ~self.config.security.allow_config_path_access
            /\ starts_with(path, ConfigDir)
    THEN Err(Error("anyhow",
                   <<"Access to configuration directory is not allowed">>))
    ELSE IF /\ IsSome(extension(path))
            /\ (<<".">> \o Unwrap(extension(path)))
                   \in Range(self.config.security.blocked_extensions)
    THEN Err(Error("anyhow", <<"File extension ">>
                               \o (<<".">> \o Unwrap(extension(path)))
                               \o <<" is blocked">>))
    ELSE IF \E i \in 1..Len(self.ignore_patterns) :
                is_match(self.ignore_patterns[i], path)
    THEN Err(Error("anyhow", <<"Path matches ignore pattern">>))
    ELSE Ok(<<>>)

\* a faulty variant of operation_allowed: the shell arm reads the wrong field
operation_allowed_wrong_field(self, operation) ==
    CASE operation = "fs.makedir" ->
            self.config.security.allowed_operations.fs_makedir
      [] operation = "fs.makefile" ->
            self.config.security.allowed_operations.fs_makefile
      [] operation = "fs.writefile" ->
            self.config.security.allowed_operations.fs_writefile
      [] operation = "fs.readfile" ->
            self.config.security.allowed_operations.fs_readfile
      [] operation = "fs.listdir" ->
            self.config.security.allowed_operations.fs_listdir
      [] operation = "shell" ->
            self.config.security.allowed_operations.fs_listdir
      [] OTHER -> FALSE

\* a faulty variant of operation_allowed: a string the table does not know
\* is permitted
operation_allowed_fail_open(self, operation) ==
    CASE operation = "fs.makedir" ->
            self.config.security.allowed_operations.fs_makedir
      [] operation = "fs.makefile" ->
            self.config.security.allowed_operations.fs_makefile
      [] operation = "fs.writefile" ->
            self.config.security.allowed_operations.fs_writefile
      [] operation = "fs.readfile" ->
            self.config.security.allowed_operations.fs_readfile
      [] operation = "fs.listdir" ->
            self.config.security.allowed_operations.fs_listdir
      [] operation = "shell" ->
            self.config.security.allowed_operations.shell
      [] OTHER -> TRUE

\* the table of SecurityValidator::validate_operation
operation_allowed(self, operation) ==
    CASE operation = "fs.makedir" ->
            self.config.security.allowed_operations.fs_makedir
      [] operation = "fs.makefile" ->
            self.config.security.allowed_operations.fs_makefile
      [] operation = "fs.writefile" ->
            self.config.security.allowed_operations.fs_writefile
      [] operation = "fs.readfile" ->
            self.config.security.allowed_operations.fs_readfile
      [] operation = "fs.listdir" ->
            self.config.security.allowed_operations.fs_listdir
      [] operation = "shell" ->
            self.config.security.allowed_operations.shell
      [] OTHER -> FALSE

\* SecurityValidator::validate_operation
validate_operation(self, operation) ==
    IF ~operation_allowed(self, operation)
    THEN Err(Error("anyhow", <<"Operation ", operation, " is not allowed">>))
    ELSE Ok(<<>>)

\* a faulty variant of is_whitelisted: a pattern that does not compile ends
\* the evaluation
is_whitelisted_fail_stop(self, command) ==
    \E i \in 1..Len(self.config.whitelist) :
        /\ \A j \in 1..i : regex_new(self.config.whitelist[j]).ok
        /\ is_match(regex_new(self.config.whitelist[i]).v, command)

\* SecurityValidator::is_whitelisted
is_whitelisted(self, command) ==
    \E i \in 1..Len(self.config.whitelist) :
        LET regex == regex_new(self.config.whitelist[i])
        IN IF regex.ok THEN is_match(regex.v, command) ELSE FALSE

(***************************************************************************)
(* fs_ops.rs over a file system [files, dirs]: files maps the components   *)
(* of a path to the file's content, dirs is the set of directories.        *)
(***************************************************************************)
\* the directories std::fs::create_dir_all(path) makes sure exist
ancestors(path) ==
    LET c == components(path)
    IN {SubSeq(c, 1, k) : k \in 1..Len(c)}

\* std::fs::create_dir_all
create_dir_all(fs, path) ==
    IF \E d \in ancestors(path) : d \in DOMAIN fs.files
    THEN Err(Error("io", <<"File exists">>))
    ELSE Ok([fs EXCEPT !.dirs = @ \cup ancestors(path)])

\* FsOperations::read_file
read_file(fs, path) ==
    IF components(path) \in DOMAIN fs.files
    THEN Ok(fs.files[components(path)])
    ELSE Err(Error("io", <<"Failed to read file: ">> \o path))

\* FsOperations::write_file: the result and the file system it leaves
write_file(fs, path, content) ==
    LET made == IF IsSome(parent(path))
                THEN create_dir_all(fs, Unwrap(parent(path)))
                ELSE Ok(fs)
    IN IF ~made.ok THEN [res |-> made, fs |-> fs]
       ELSE IF components(path) \in made.v.dirs \/ components(path) = <<>>
       THEN [res |-> Err(Error("io", <<"Failed to write file: ">> \o path)),
             fs |-> made.v]
       ELSE [res |-> Ok(<<>>),
             fs |-> [made.v EXCEPT !.files =
                        [k \in (DOMAIN @) \cup {components(path)} |->
                            IF k = components(path) THEN content ELSE @[k]]]]

\* FsOperations::make_dir
make_dir(fs, path) ==
    LET made == create_dir_all(fs, path)
    IN IF made.ok THEN [res |-> Ok(<<>>), fs |-> made.v]
       ELSE [res |-> Err(Error("io", <<"Failed to create directory: ">>
                                        \o path)),
             fs |-> fs]

\* the names read_dir(path) yields, in the order the model fixes for them
RECURSIVE SetToSeq(_)
SetToSeq(S) ==
    IF S = {} THEN <<>>
    ELSE LET x == CHOOSE y \in S : TRUE IN <<x>> \o SetToSeq(S \ {x})

\* FsOperations::list_dir
list_dir(fs, path) ==
    LET c == components(path)
        here == {e \in (DOMAIN fs.files) \cup fs.dirs :
                    Len(e) = Len(c) + 1 /\ SubSeq(e, 1, Len(c)) = c}
    IN IF c \in fs.dirs \/ c = <<>>
       THEN Ok(SetToSeq({e[Len(e)] : e \in here}))
       ELSE Err(Error("io", <<"Failed to list directory: ">> \o path))

(***************************************************************************)
(* llm.rs: messages and tool calls.                                        *)
(***************************************************************************)
ChatMessage(role, content, tool_calls, tool_call_id, name) ==
    [role |-> role, content |-> content, tool_calls |-> tool_calls,
     tool_call_id |-> tool_call_id, name |-> name]

ToolCall(id, name, arguments) ==
    [id |-> id, type |-> "function",
     function |-> [name |-> name, arguments |-> arguments]]

(***************************************************************************)
(* What the program prints and does, recorded in the order it happens.     *)
(* An event is [e, d, op, call, i]: its kind, a detail, the operation type *)
(* it is about ("" when there is none), the number of the model call whose *)
(* response is being processed and the position of the tool invocation in  *)
(* that response (0 outside the tool loop).                                *)
(***************************************************************************)
Ev(e, d) == [e |-> e, d |-> d, op |-> ""]

WithOp(evs, op_type) == [k \in 1..Len(evs) |-> [evs[k] EXCEPT !.op = op_type]]

Stamp(evs, call, i) ==
    [k \in 1..Len(evs) |->
        [e |-> evs[k].e, d |-> evs[k].d, op |-> evs[k].op,
         call |-> call, i |-> i]]

\* the event of App::run returning ret
ReturnEv(ret) == Ev("return", IF ret.ok THEN "ok" ELSE ret.e.type)

(***************************************************************************)
(* shell.rs: ShellExecutor::execute as the dispatcher sees it: the spawn   *)
(* fails, or the captured output of the child is returned.                 *)
(***************************************************************************)
ShellOutcomes == {"spawn_error", "exit0"}

ShellExecutor_execute(command, outcome) ==
    IF outcome = "spawn_error"
    THEN Err(Error("io", <<"No such file or directory">>))
    ELSE Ok(<<"$ ">> \o command \o <<"\n">>)

(***************************************************************************)
(* cli/app.rs: App.  self is [accept_all, security].                       *)
(***************************************************************************)
Choices == {"Accept", "Reject", "Cancel"}

\* a faulty variant of should_execute: accept-all mode approves only what the
\* whitelist names and asks for the rest
should_execute_asks_unlisted(self, op_type, description, choice) ==
    IF self.accept_all /\ op_type = "shell"
                       /\ is_whitelisted(self.security, description)
    THEN [events |-> <<Ev("print", "Auto-approved (whitelisted)")>>,
          res |-> Ok(TRUE)]
    ELSE [events |-> <<Ev("prompt", op_type), Ev("choice", choice)>>,
          res |-> IF choice = "Cancel"
                  THEN Err(Error("inquire", <<"Operation was canceled">>))
                  ELSE Ok(choice = "Accept")]

\* a faulty variant of should_execute: a whitelisted shell command is approved
\* without a prompt in interactive mode too
should_execute_whitelist_bypass(self, op_type, description, choice) ==
    IF self.accept_all
       \/ (op_type = "shell" /\ is_whitelisted(self.security, description))
    THEN LET whitelisted == op_type = "shell"
                              /\ is_whitelisted(self.security, description)
         IN [events |-> <<Ev("print", IF whitelisted
                                      THEN "Auto-approved (whitelisted)"
                                      ELSE "Auto-approved")>>,
             res |-> Ok(TRUE)]
    ELSE [events |-> <<Ev("prompt", op_type), Ev("choice", choice)>>,
          res |-> IF choice = "Cancel"
                  THEN Err(Error("inquire", <<"Operation was canceled">>))
                  ELSE Ok(choice = "Accept")]

\* a faulty variant of should_execute: a cancelled prompt counts as a rejection
should_execute_cancel_rejects(self, op_type, description, choice) ==
    IF self.accept_all
    THEN LET whitelisted == op_type = "shell"
                              /\ is_whitelisted(self.security, description)
         IN [events |-> <<Ev("print", IF whitelisted
                                      THEN "Auto-approved (whitelisted)"
                                      ELSE "Auto-approved")>>,
             res |-> Ok(TRUE)]
    ELSE [events |-> <<Ev("prompt", op_type), Ev("choice", choice)>>,
          res |-> Ok(choice = "Accept")]

\* App::should_execute; choice is what the operator does if a prompt is shown
should_execute(self, op_type, description, choice) ==
    IF self.accept_all
    THEN LET whitelisted == op_type = "shell"
                              /\ is_whitelisted(self.security, description)
         IN [events |-> <<Ev("print", IF whitelisted
                                      THEN "Auto-approved (whitelisted)"
                                      ELSE "Auto-approved")>>,
             res |-> Ok(TRUE)]
    ELSE [events |-> <<Ev("prompt", op_type), Ev("choice", choice)>>,
          res |-> IF choice = "Cancel"
                  THEN Err(Error("inquire", <<"Operation was canceled">>))
                  ELSE Ok(choice = "Accept")]

\* App::format_operation
format_operation(operation, args) ==
    LET path == IF IsSome(get_str(args, "path"))
                THEN Unwrap(get_str(args, "path")) ELSE <<>>
    IN CASE operation = "fs_readfile" -> <<"Read file: ">> \o path
         [] operation = "fs_writefile" -> <<"Write file: ">> \o path
         [] operation = "fs_makedir" -> <<"Create directory: ">> \o path
         [] operation = "fs_listdir" -> <<"List directory: ">> \o path
         [] OTHER -> <<operation, ": ">>

Panic == Err(Error("panic", <<"called Option::unwrap on a None value">>))

\* the value of a filesystem arm of App::execute_action: the result r of
\* the primitive, or the confirmation text when there is one
arm_value(r, new_fs, op_type, confirmation) ==
    [res |-> IF r.ok /\ IsSome(confirmation) THEN Ok(Unwrap(confirmation))
             ELSE r,
     fs |-> new_fs,
     events |-> <<Ev("validate_path", "ok"), Ev("effect", op_type)>>]

written(w, op_type, confirmation) ==
    arm_value(w.res, w.fs, op_type, Some(confirmation))

listed(l, fs, op_type) ==
    arm_value(IF l.ok THEN Ok(Join(l.v, "\n")) ELSE l, fs, op_type, None)

\* the end of a filesystem arm of App::execute_action: the path is
\* validated (vp) and the primitive is called
fs_primitive(fs, op_type, path, content, vp) ==
    IF ~vp.ok
    THEN [res |-> vp, fs |-> fs, events |-> <<Ev("validate_path", "denied")>>]
    ELSE CASE op_type = "fs_readfile" ->
                arm_value(read_file(fs, path), fs, op_type, None)
           [] op_type = "fs_writefile" ->
                written(write_file(fs, path, Unwrap(content)), op_type,
                        <<"File written successfully">>)
           [] op_type = "fs_makedir" ->
                written(make_dir(fs, path), op_type,
                        <<"Directory created successfully">>)
           [] op_type = "fs_listdir" ->
                listed(list_dir(fs, path), fs, op_type)

\* one filesystem arm of App::execute_action once the arguments are parsed
\* again: the fields are unwrapped, then the path is validated
fs_fields(self, fs, op_type, path, content) ==
    IF ~IsSome(path) \/ (op_type = "fs_writefile" /\ ~IsSome(content))
    THEN [res |-> Panic, fs |-> fs, events |-> <<Ev("panic", op_type)>>]
    ELSE fs_primitive(fs, op_type, Unwrap(path), content,
                      validate_path(self.security, Unwrap(path)))

fs_parsed(self, fs, op_type, parsed) ==
    IF ~parsed.ok THEN [res |-> parsed, fs |-> fs, events |-> <<>>]
    ELSE fs_fields(self, fs, op_type, get_str(parsed.v, "path"),
                   get_str(parsed.v, "content"))

\* one filesystem arm of App::execute_action
fs_arm(self, fs, op_type, command) ==
    fs_parsed(self, fs, op_type, from_str(command))

\* a faulty variant of execute_validated: the result of validate_operation is
\* dropped instead of propagated
execute_unvalidated(self, fs, op_type, command, outcome, vo) ==
    LET gate == <<Ev("validate_operation", IF vo.ok THEN "ok" ELSE "denied")>>
    IN CASE op_type = "shell" ->
              [res |-> ShellExecutor_execute(command, outcome),
               fs |-> fs,
               events |-> gate \o <<Ev("effect", "shell")>>]
         [] op_type \in {"fs_readfile", "fs_writefile",
                         "fs_makedir", "fs_listdir"} ->
              [fs_arm(self, fs, op_type, command) EXCEPT !.events = gate \o @]
         [] OTHER ->
              [res |-> Err(Error("anyhow", <<"Unknown operation">>)),
               fs |-> fs, events |-> gate]

\* App::execute_action after validate_operation returned vo
execute_validated(self, fs, op_type, command, outcome, vo) ==
    IF ~vo.ok
    THEN [res |-> vo, fs |-> fs,
          events |-> <<Ev("validate_operation", "denied")>>]
    ELSE CASE op_type = "shell" ->
                [res |-> ShellExecutor_execute(command, outcome),
                 fs |-> fs,
                 events |-> <<Ev("validate_operation", "ok"),
                              Ev("effect", "shell")>>]
           [] op_type \in {"fs_readfile", "fs_writefile",
                           "fs_makedir", "fs_listdir"} ->
                [fs_arm(self, fs, op_type, command)
                    EXCEPT !.events = <<Ev("validate_operation", "ok")>> \o @]
           [] OTHER ->
                [res |-> Err(Error("anyhow", <<"Unknown operation">>)),
                 fs |-> fs, events |-> <<Ev("validate_operation", "ok")>>]

\* App::execute_action; outcome is what the operating system does with a
\* spawn.  The result, the file system it leaves and what happened.
execute_action(self, fs, op_type, command, outcome) ==
    execute_validated(self, fs, op_type, command, outcome,
                      validate_operation(self.security, op_type))

\* a faulty variant of add_tool_result: the message does not carry the id
\* of the tool call
add_tool_result_untagged(tool_call_id, name, result) ==
    ChatMessage("tool", Some(result), None, Some(<<0, 0>>), Some(name))

\* App::add_tool_result: the message it pushes
add_tool_result(tool_call_id, name, result) ==
    ChatMessage("tool", Some(result), None, Some(tool_call_id), Some(name))

\* a faulty variant of approved: a rejection goes on with the next tool call
approved_continue(fs, tool_call, op_type, se, ex) ==
    IF ~se.res.ok
    THEN [flow |-> "return", ret |-> se.res, fs |-> fs, push |-> <<>>,
          events |-> se.events \o <<Ev("should_execute", "err")>>]
    ELSE IF ~se.res.v
    THEN [flow |-> "next", ret |-> Ok(<<>>), fs |-> fs, push |-> <<>>,
          events |-> se.events \o <<Ev("should_execute", "false"),
                                    Ev("print", "rejected")>>]
    ELSE IF ~ex.res.ok
    THEN [flow |-> "return", ret |-> ex.res, fs |-> ex.fs, push |-> <<>>,
          events |-> se.events \o <<Ev("should_execute", "true")>>
                       \o ex.events]
    ELSE [flow |-> "next", ret |-> Ok(<<>>), fs |-> ex.fs,
          push |-> <<add_tool_result(tool_call.id, op_type, ex.res.v)>>,
          events |-> se.events \o <<Ev("should_execute", "true")>>
                       \o ex.events \o <<Ev("tool_result", op_type)>>]

\* a faulty variant of approved: the error of execute_action is reported
\* to the model as the result of the tool call
approved_error_as_result(fs, tool_call, op_type, se, ex) ==
    IF ~se.res.ok
    THEN [flow |-> "return", ret |-> se.res, fs |-> fs, push |-> <<>>,
          events |-> se.events \o <<Ev("should_execute", "err")>>]
    ELSE IF ~se.res.v
    THEN [flow |-> "return", ret |-> Ok(<<>>), fs |-> fs, push |-> <<>>,
          events |-> se.events \o <<Ev("should_execute", "false"),
                                    Ev("print", "rejected")>>]
    ELSE [flow |-> "next", ret |-> Ok(<<>>), fs |-> ex.fs,
          push |-> <<add_tool_result(tool_call.id, op_type,
                        IF ex.res.ok THEN ex.res.v ELSE ex.res.e.msg)>>,
          events |-> se.events \o <<Ev("should_execute", "true")>>
                       \o ex.events \o <<Ev("tool_result", op_type)>>]

\* a faulty variant of approved: the result of an executed operation is
\* appended twice
approved_twice(fs, tool_call, op_type, se, ex) ==
    IF ~se.res.ok
    THEN [flow |-> "return", ret |-> se.res, fs |-> fs, push |-> <<>>,
          events |-> se.events \o <<Ev("should_execute", "err")>>]
    ELSE IF ~se.res.v
    THEN [flow |-> "return", ret |-> Ok(<<>>), fs |-> fs, push |-> <<>>,
          events |-> se.events \o <<Ev("should_execute", "false"),
                                    Ev("print", "rejected")>>]
    ELSE IF ~ex.res.ok
    THEN [flow |-> "return", ret |-> ex.res, fs |-> ex.fs, push |-> <<>>,
          events |-> se.events \o <<Ev("should_execute", "true")>>
                       \o ex.events]
    ELSE [flow |-> "next", ret |-> Ok(<<>>), fs |-> ex.fs,
          push |-> <<add_tool_result(tool_call.id, op_type, ex.res.v),
                     add_tool_result(tool_call.id, op_type, ex.res.v)>>,
          events |-> se.events \o <<Ev("should_execute", "true")>>
                       \o ex.events \o <<Ev("tool_result", op_type)>>]

\* what App::run does with the value se of should_execute and, when it is
\* Ok(true), with the value ex of execute_action: flow is "next" (go on
\* with the loop) or "return" (run returns ret)
approved(fs, tool_call, op_type, se, ex) ==
    IF ~se.res.ok
    THEN [flow |-> "return", ret |-> se.res, fs |-> fs, push |-> <<>>,
          events |-> se.events \o <<Ev("should_execute", "err")>>]
    ELSE IF ~se.res.v
    THEN [flow |-> "return", ret |-> Ok(<<>>), fs |-> fs, push |-> <<>>,
          events |-> se.events \o <<Ev("should_execute", "false"),
                                    Ev("print", "rejected")>>]
    ELSE IF ~ex.res.ok
    THEN [flow |-> "return", ret |-> ex.res, fs |-> ex.fs, push |-> <<>>,
          events |-> se.events \o <<Ev("should_execute", "true")>>
                       \o ex.events]
    ELSE [flow |-> "next", ret |-> Ok(<<>>), fs |-> ex.fs,
          push |-> <<add_tool_result(tool_call.id, op_type, ex.res.v)>>,
          events |-> se.events \o <<Ev("should_execute", "true")>>
                       \o ex.events \o <<Ev("tool_result", op_type)>>]

\* an arm of the match in App::run: should_execute, then execute_action
\* and add_tool_result, or the rejection
approve_and_execute(self, fs, tool_call, op_type, description, command, choice, outcome) ==
    [approved(fs, tool_call, op_type,
              should_execute(self, op_type, description, choice),
              execute_action(self, fs, op_type, command, outcome))
        EXCEPT !.events = WithOp(@, op_type)]

FsTools == {"fs_readfile", "fs_writefile", "fs_makedir", "fs_listdir"}

\* a faulty variant of match_tool: a tool name that is not known ends the
\* turn
match_tool_unknown_stops(self, fs, tool_call, name, args, choice, outcome) ==
    CASE name = "execute_shell" /\ IsSome(get_str(args, "command")) ->
            approve_and_execute(self, fs, tool_call, "shell",
                Unwrap(get_str(args, "command")),
                Unwrap(get_str(args, "command")), choice, outcome)
      [] name \in FsTools ->
            approve_and_execute(self, fs, tool_call, name,
                format_operation(name, args), to_string(args),
                choice, outcome)
      [] name = "execute_shell" ->
            [flow |-> "next", ret |-> Ok(<<>>), fs |-> fs, push |-> <<>>,
             events |-> <<Ev("skip", name)>>]
      [] OTHER ->
            [flow |-> "return", ret |-> Ok(<<>>), fs |-> fs, push |-> <<>>,
             events |-> <<Ev("skip", name)>>]

\* the match on the tool name in App::run, the arguments being parsed
match_tool(self, fs, tool_call, name, args, choice, outcome) ==
    CASE name = "execute_shell" /\ IsSome(get_str(args, "command")) ->
            approve_and_execute(self, fs, tool_call, "shell",
                Unwrap(get_str(args, "command")),
                Unwrap(get_str(args, "command")), choice, outcome)
      [] name \in FsTools ->
            approve_and_execute(self, fs, tool_call, name,
                format_operation(name, args), to_string(args),
                choice, outcome)
      [] OTHER ->
            [flow |-> "next", ret |-> Ok(<<>>), fs |-> fs, push |-> <<>>,
             events |-> <<Ev("skip", name)>>]

\* a faulty variant of tool_parsed: a tool call whose arguments do not
\* parse is passed over
tool_parsed_lenient(self, fs, tool_call, parsed, choice, outcome) ==
    IF ~parsed.ok
    THEN [flow |-> "next", ret |-> Ok(<<>>), fs |-> fs, push |-> <<>>,
          events |-> <<Ev("parse", "err")>>]
    ELSE [match_tool(self, fs, tool_call, tool_call.function.name, parsed.v,
                     choice, outcome)
            EXCEPT !.events = <<Ev("parse", "ok")>> \o @]

\* the body of the tool loop of App::run once the arguments are parsed
tool_parsed(self, fs, tool_call, parsed, choice, outcome) ==
    IF ~parsed.ok
    THEN [flow |-> "return", ret |-> parsed, fs |-> fs, push |-> <<>>,
          events |-> <<Ev("parse", "err")>>]
    ELSE [match_tool(self, fs, tool_call, tool_call.function.name, parsed.v,
                     choice, outcome)
            EXCEPT !.events = <<Ev("parse", "ok")>> \o @]

\* the body of the tool loop of App::run for one tool call
process_tool_call(self, fs, tool_call, choice, outcome) ==
    tool_parsed(self, fs, tool_call, from_str(tool_call.function.arguments),
                choice, outcome)

(***************************************************************************)
(* The system prompt (config.rs) and its refresh (cli/app.rs).             *)
(***************************************************************************)
\* the persisted template system_prompt.txt
SystemTemplate == <<"You are aish. cwd: ", "{{CWD}}", " flags: ", "{{FLAGS}}">>

\* WorkspaceContext::detect(dir).to_flags_string(): what is found in dir
to_flags_string(dir) ==
    IF dir = <<"/", "w">> THEN <<"is_git_repo: true">>
    ELSE <<"is_node_project: true">>

\* replace_system_prompt_placeholders, for the placeholders of the model
replace_system_prompt_placeholders(prompt, dir) ==
    Replace(Replace(prompt, "{{CWD}}", dir), "{{FLAGS}}", to_flags_string(dir))

\* ConfigManager::load_system_prompt
load_system_prompt(dir) == replace_system_prompt_placeholders(SystemTemplate, dir)

\* App::update_system_message_cwd: the messages after the refresh
update_system_message_cwd(msgs, dir) ==
    IF Len(msgs) > 0 /\ IsSome(msgs[1].content)
    THEN [msgs EXCEPT ![1].content =
            Some(Replace(Replace(Unwrap(@), "{{CWD}}", dir),
                         "{{FLAGS}}", to_flags_string(dir)))]
    ELSE msgs

(***************************************************************************)
(* Inputs of the model.                                                    *)
(***************************************************************************)
Cmd_ls == <<"l", "s">>
Path_a == <<"a", ".", "t">>
Path_secrets_env == <<"s", "e", "c", "r", "e", "t", "s", ".", "e", "n", "v">>
Path_d == <<"d">>
Content_1 == <<"hello">>

Blob(command, path, content) ==
    [wf |-> TRUE, fields |-> JObject(command, path, content)]
Malformed == [wf |-> FALSE, fields |-> JObject(None, None, None)]

Shape(name, arguments) == [name |-> name, arguments |-> arguments]

Shell_ls == Shape("execute_shell", Blob(Some(JStr(Cmd_ls)), None, None))
Write_a ==
    Shape("fs_writefile", Blob(None, Some(JStr(Path_a)), Some(JStr(Content_1))))
Read_a == Shape("fs_readfile", Blob(None, Some(JStr(Path_a)), None))

Read_secrets ==
    Shape("fs_readfile", Blob(None, Some(JStr(Path_secrets_env)), None))

\* the other tool invocations the model may emit, a name and an argument
\* blob each
OtherShapes ==
    { Shape("execute_shell", Blob(None, None, None)),
      Shape("execute_shell", Malformed),
      Shape("web_search", Blob(None, None, None)),
      Shape("web_search", Malformed),
      Shape("fs_makedir", Blob(None, Some(JStr(Path_d)), None)),
      Shape("fs_listdir", Blob(None, Some(JStr(Path_d)), None)),
      Shape("fs_readfile", Blob(None, None, None)),
      Shape("fs_writefile", Malformed) }

\* the vocabulary of a behaviour: the invocations the model emits in it
Vocabularies ==
    {{Shell_ls, Read_secrets}, {Write_a, Read_a}} \cup {{x} : x \in OtherShapes}

\* the sequences of at most k tool invocations over the vocabulary v
ToolSeqs(v, k) == UNION {[1..m -> v] : m \in 1..k}

Answer == <<"done">>

\* a response with the tool invocations sh, as call number n of
\* LlmClient::chat returns it
tool_response(n, sh) ==
    ChatMessage("assistant", None,
        Some([i \in 1..Len(sh) |->
                ToolCall(<<n, i>>, sh[i].name, sh[i].arguments)]),
        None, None)

\* the responses without tool invocations: a final answer, an answer with
\* an empty tool_calls array, and a message with neither
PlainResponses ==
    { ChatMessage("assistant", Some(Answer), None, None, None),
      ChatMessage("assistant", Some(Answer), Some(<<>>), None, None),
      ChatMessage("assistant", None, None, None, None) }

UserPrompts == {<<"please">>}

\* .aishignore
IgnoreFile == << <<"*", ".", "l", "o", "g">> >>

\* the configurations the process may have loaded
Whitelists == {<<>>, << <<"(">>, Cmd_ls >>}
Configs ==
    { [DefaultConfig EXCEPT !.whitelist = wl] : wl \in Whitelists }
    \cup { [DefaultConfig EXCEPT !.security.allowed_operations.shell = FALSE] }

WorkDir == <<"/", "w">>

\* the directories the process may be started in: the second one has the
\* name of a placeholder of the system prompt
WorkDirs == {WorkDir, <<"/", "{{CWD}}">>}

(***************************************************************************)
(* State.                                                                  *)
(***************************************************************************)
VARIABLES
    messages,     \* App.messages
    accept_all,   \* App.accept_all
    security,     \* App.security
    pc,           \* where the process is: "repl", "AwaitingModel",
                  \* "ProcessingToolCalls" or "exited"
    tool_calls,   \* the tool calls of the response App::run iterates over
    idx,          \* the position of the tool loop in tool_calls
    run_result,   \* what the last call of App::run returned, None while it runs
    fs,           \* the file system
    cwd,          \* std::env::current_dir()
    events,       \* what happened so far, in order
    nCalls,       \* calls of LlmClient::chat so far
    nTools,       \* tool invocations received so far
    nPrompts,     \* REPL submissions so far
    received,     \* the responses LlmClient::chat has returned so far
    sent,         \* the messages handed to the last call of LlmClient::chat
    vocabulary,   \* the tool invocations the model emits in this behaviour
    probe,        \* a call of a SecurityValidator method: its argument and,
                  \* once it has returned, its result
    ctrl_c_pressed, \* the flag run_interactive_mode shares with its
                  \* Ctrl+C watcher
    child,        \* the child process of ShellExecutor::execute
    pipes,        \* the two pipes between the child and the process
    drains,       \* the two threads that read the pipes
    exec,         \* the thread that called ShellExecutor::execute
    term          \* what was printed on the local stdout and stderr

\* the state of ShellExecutor::execute
runnerVars == <<child, pipes, drains, exec, term>>

vars == <<messages, accept_all, security, pc, tool_calls, idx, run_result,
          fs, cwd, events, nCalls, nTools, nPrompts, received, sent,
          vocabulary, probe, ctrl_c_pressed, runnerVars>>

\* no call of ShellExecutor::execute is under way
RunnerIdle ==
    /\ child = [state |-> "none", script |-> <<>>, at |-> 1, wrote |-> {},
                exit |-> [success |-> TRUE, code |-> Some(0)]]
    /\ pipes = [stdout |-> [buf |-> <<>>, rd_open |-> FALSE],
                stderr |-> [buf |-> <<>>, rd_open |-> FALSE]]
    /\ drains = [stdout |-> [pc |-> "none", result |-> <<>>],
                 stderr |-> [pc |-> "none", result |-> <<>>]]
    /\ exec = [pc |-> "idle", status |-> None, ret |-> None]
    /\ term = [stdout |-> <<>>, stderr |-> <<>>]

Self == [accept_all |-> accept_all, security |-> security]

system_message(dir) ==
    ChatMessage("system", Some(load_system_prompt(dir)), None, None, None)

user_message(prompt) == ChatMessage("user", Some(prompt), None, None, None)

\* App::new (with an initial prompt, which run_interactive_mode then runs)
\* or App::new_empty (the REPL asks for the first prompt), the process
\* being started in one of the directories dirs with one of the
\* configurations cfgs, the model emitting one of the vocabularies vocs
InitIn(dirs, cfgs, vocs) ==
    /\ accept_all \in BOOLEAN
    /\ \E cfg \in cfgs : security = SecurityValidator_new(cfg, IgnoreFile)
    /\ cwd \in dirs
    /\ \E initial_prompt \in {None} \cup {Some(p) : p \in UserPrompts} :
          IF IsSome(initial_prompt)
          THEN /\ messages = <<system_message(cwd),
                               user_message(Unwrap(initial_prompt))>>
               /\ pc = "AwaitingModel"
          ELSE /\ messages = <<system_message(cwd)>>
               /\ pc = "repl"
    /\ tool_calls = <<>>
    /\ idx = 0
    /\ run_result = None
    /\ fs = [files |-> [k \in {} |-> <<>>], dirs |-> {}]
    /\ events = <<>>
    /\ nCalls = 0
    /\ nTools = 0
    /\ nPrompts = 0
    /\ received = <<>>
    /\ sent = <<>>
    /\ vocabulary \in vocs
    /\ probe = None
    /\ ctrl_c_pressed = FALSE
    /\ RunnerIdle

\* the configurations that differ from the default one in the shell
\* permission or in the whitelist are explored with the vocabulary that has
\* a well-formed shell command, the default one with every vocabulary
ShellVocabularies == {v \in Vocabularies : Shell_ls \in v}

Init ==
    \/ InitIn({WorkDir}, Configs, ShellVocabularies)
    \/ InitIn({WorkDir}, {DefaultConfig}, Vocabularies \ ShellVocabularies)

\* a faulty variant of add_user_message: the conversation starts afresh
\* with each prompt
add_user_message_fresh(msgs, prompt) == <<msgs[1], user_message(prompt)>>

\* a faulty variant of add_user_message: the prompt is put right after the
\* system message
add_user_message_first(msgs, prompt) ==
    <<msgs[1], user_message(prompt)>> \o Tail(msgs)

\* App::add_user_message
add_user_message(msgs, prompt) == Append(msgs, user_message(prompt))

\* a faulty variant of after_run: the flag of the Ctrl+C watcher is not
\* looked at before the next prompt
after_run_unchecked(ret) ==
    IF ~ret.ok /\ (nPrompts = 0 \/ ret.e.type = "panic") THEN "exited" ELSE "repl"

\* where the process goes when App::run returns ret: the initial run of
\* run_interactive_mode propagates an error with `?`, the REPL prints it;
\* back at the top of its loop the REPL loads the flag of the Ctrl+C
\* watcher and leaves when it is set, and shows the prompt otherwise (the
\* load is the first thing the REPL does after the return, and is taken
\* on the same step)
after_run(ret) ==
    IF ~ret.ok /\ (nPrompts = 0 \/ ret.e.type = "panic") THEN "exited"
    ELSE IF ctrl_c_pressed THEN "exited" ELSE "repl"

\* run returns ret
Return(ret) ==
    /\ run_result' = Some(ret)
    /\ pc' = after_run(ret)
    /\ tool_calls' = <<>>
    /\ idx' = 0

\* run_interactive_mode: the operator submits a prompt, add_user_message
\* appends it and App::run is entered
ReplSubmit(prompt) ==
    /\ pc = "repl"
    /\ nPrompts < MaxPrompts
    /\ nCalls < MaxModelCalls
    /\ messages' = add_user_message(messages, prompt)
    /\ pc' = "AwaitingModel"
    /\ run_result' = None
    /\ nPrompts' = nPrompts + 1
    /\ events' = events \o Stamp(<<Ev("user", "prompt")>>, nCalls, 0)
    /\ UNCHANGED <<accept_all, security, tool_calls, idx, fs, cwd, nCalls,
                   nTools, received, sent, vocabulary, probe, ctrl_c_pressed,
                   runnerVars>>

\* run_interactive_mode: the operator types quit or exit, or cancels
ReplQuit ==
    /\ pc = "repl"
    /\ pc' = "exited"
    /\ UNCHANGED <<messages, accept_all, security, tool_calls, idx,
                   run_result, fs, cwd, events, nCalls, nTools, nPrompts,
                   received, sent, vocabulary, probe, ctrl_c_pressed,
                   runnerVars>>

\* an error of LlmClient::chat
ChatError == Err(Error("reqwest", <<"error sending request">>))

\* the errors of LlmClient::chat: the request or the reading of the body
\* fails (the reqwest error, passed on by `?`), or chat bails out with an
\* anyhow error, here for a status that is not a success (the two other
\* bail sites, the body that does not parse and the empty choices array,
\* give an error of the same type with another message)
ChatErrors ==
    { ChatError,
      Err(Error("anyhow", <<"API error (", "500", "): ", "overloaded">>)) }

\* a faulty variant of ChatErr: the failed call is tried again
ChatErr_retry(err) ==
    /\ pc = "AwaitingModel"
    /\ nCalls < MaxModelCalls
    /\ nCalls' = nCalls + 1
    /\ messages' = update_system_message_cwd(messages, cwd)
    /\ sent' = messages'
    /\ events' = events \o Stamp(<<Ev("chat", "err")>>, nCalls + 1, 0)
    /\ UNCHANGED <<pc, tool_calls, idx, run_result>>
    /\ UNCHANGED <<accept_all, security, fs, cwd, nTools, nPrompts, received,
                   vocabulary, probe, ctrl_c_pressed, runnerVars>>

\* App::run, top of the loop: the system message is refreshed and
\* LlmClient::chat fails with err
ChatErr(err) ==
    /\ pc = "AwaitingModel"
    /\ nCalls < MaxModelCalls
    /\ nCalls' = nCalls + 1
    /\ messages' = update_system_message_cwd(messages, cwd)
    /\ sent' = messages'
    /\ events' = events \o Stamp(<<Ev("chat", "err"), ReturnEv(err)>>,
                                 nCalls + 1, 0)
    /\ Return(err)
    /\ UNCHANGED <<accept_all, security, fs, cwd, nTools, nPrompts, received,
                   vocabulary, probe, ctrl_c_pressed, runnerVars>>

\* a faulty variant of push_response: a response with tool calls is not pushed
push_response_plain_only(msgs, response) ==
    IF IsSome(response.tool_calls) THEN msgs ELSE Append(msgs, response)

\* the messages after App::run has received a response
push_response(msgs, response) == Append(msgs, response)

\* a faulty variant of ChatOk: a response with content is the final answer
\* whether or not it has tool calls
ChatOk_content_first(response) ==
    /\ pc = "AwaitingModel"
    /\ nCalls < MaxModelCalls
    /\ nCalls' = nCalls + 1
    /\ messages' = push_response(update_system_message_cwd(messages, cwd),
                                 response)
    /\ sent' = update_system_message_cwd(messages, cwd)
    /\ received' = Append(received, response)
    /\ events' = events \o Stamp(
          <<Ev("chat", "ok")>> \o
          (IF IsSome(response.content)
           THEN <<ReturnEv(Ok(<<>>))>> ELSE <<>>), nCalls + 1, 0)
    /\ IF IsSome(response.content)
       THEN /\ nTools' = nTools
            /\ Return(Ok(<<>>))
       ELSE IF IsSome(response.tool_calls)
       THEN /\ nTools' = nTools + Len(Unwrap(response.tool_calls))
            /\ run_result' = run_result
            /\ IF Len(Unwrap(response.tool_calls)) > 0
               THEN /\ pc' = "ProcessingToolCalls"
                    /\ tool_calls' = Unwrap(response.tool_calls)
                    /\ idx' = 1
               ELSE /\ pc' = "AwaitingModel"
                    /\ tool_calls' = <<>>
                    /\ idx' = 0
       ELSE /\ nTools' = nTools
            /\ pc' = "AwaitingModel"
            /\ run_result' = run_result
            /\ tool_calls' = <<>>
            /\ idx' = 0
    /\ UNCHANGED <<accept_all, security, fs, cwd, nPrompts, vocabulary,
                   probe, ctrl_c_pressed, runnerVars>>

\* App::run, top of the loop: the system message is refreshed,
\* LlmClient::chat returns response, the response is pushed and looked at
ChatOk(response) ==
    /\ pc = "AwaitingModel"
    /\ nCalls < MaxModelCalls
    /\ nCalls' = nCalls + 1
    /\ messages' = push_response(update_system_message_cwd(messages, cwd),
                                 response)
    /\ sent' = update_system_message_cwd(messages, cwd)
    /\ received' = Append(received, response)
    /\ events' = events \o Stamp(
          <<Ev("chat", "ok")>> \o
          (IF ~IsSome(response.tool_calls) /\ IsSome(response.content)
           THEN <<ReturnEv(Ok(<<>>))>> ELSE <<>>), nCalls + 1, 0)
    /\ IF IsSome(response.tool_calls)
       THEN /\ nTools' = nTools + Len(Unwrap(response.tool_calls))
            /\ run_result' = run_result
            /\ IF Len(Unwrap(response.tool_calls)) > 0
               THEN /\ pc' = "ProcessingToolCalls"
                    /\ tool_calls' = Unwrap(response.tool_calls)
                    /\ idx' = 1
               ELSE /\ pc' = "AwaitingModel"
                    /\ tool_calls' = <<>>
                    /\ idx' = 0
       ELSE /\ nTools' = nTools
            /\ IF IsSome(response.content)
               THEN Return(Ok(<<>>))
               ELSE /\ pc' = "AwaitingModel"
                    /\ run_result' = run_result
                    /\ tool_calls' = <<>>
                    /\ idx' = 0
    /\ UNCHANGED <<accept_all, security, fs, cwd, nPrompts, vocabulary,
                   probe, ctrl_c_pressed,
                   runnerVars>>

\* the tool loop of App::run goes on with r, the outcome of one iteration
Continue(r) ==
    /\ messages' = messages \o r.push
    /\ fs' = r.fs
    /\ events' = events \o Stamp(
          r.events \o (IF r.flow = "return" THEN <<ReturnEv(r.ret)>> ELSE <<>>),
          nCalls, idx)
    /\ IF r.flow = "return"
       THEN Return(r.ret)
       ELSE /\ run_result' = run_result
            /\ IF idx < Len(tool_calls)
               THEN /\ idx' = idx + 1
                    /\ UNCHANGED <<pc, tool_calls>>
               ELSE /\ pc' = "AwaitingModel"
                    /\ tool_calls' = <<>>
                    /\ idx' = 0

\* a faulty variant of ToolLoop: the tool calls are taken from the last to
\* the first
ToolLoop_reversed(self, choice, outcome) ==
    /\ pc = "ProcessingToolCalls"
    /\ Continue(process_tool_call(self, fs,
                                  tool_calls[Len(tool_calls) + 1 - idx],
                                  choice, outcome))
    /\ UNCHANGED <<accept_all, security, cwd, nCalls, nTools, nPrompts,
                   received, sent, vocabulary, probe, ctrl_c_pressed,
                   runnerVars>>

\* App::run, one iteration of the tool loop, of the App self
ToolLoop(self, choice, outcome) ==
    /\ pc = "ProcessingToolCalls"
    /\ Continue(process_tool_call(self, fs, tool_calls[idx], choice, outcome))
    /\ UNCHANGED <<accept_all, security, cwd, nCalls, nTools, nPrompts,
                   received, sent, vocabulary, probe, ctrl_c_pressed,
                   runnerVars>>

ProcessToolCall(choice, outcome) == ToolLoop(Self, choice, outcome)

Next ==
    \/ \E p \in UserPrompts : ReplSubmit(p)
    \/ ReplQuit
    \/ \E err \in ChatErrors : ChatErr(err)
    \/ /\ pc = "AwaitingModel"
       /\ \E sh \in ToolSeqs(vocabulary, MaxToolCalls - nTools) :
             ChatOk(tool_response(nCalls + 1, sh))
    \/ \E r \in PlainResponses : ChatOk(r)
    \/ \E c \in Choices, o \in ShellOutcomes : ProcessToolCall(c, o)

Spec == Init /\ [][Next]_vars

\* the same program started in any of the directories WorkDirs, with the
\* default configuration
SpecAnywhere ==
    InitIn(WorkDirs, {DefaultConfig}, {{Shell_ls, Read_secrets}})
        /\ [][Next]_vars

(***************************************************************************)
(* Vocabulary of the properties.                                           *)
(***************************************************************************)
\* event k is about the same tool invocation as event j
SameInvocation(j, k) ==
    events[j].call = events[k].call /\ events[j].i = events[k].i

IsEv(k, e, d) == events[k].e = e /\ events[k].d = d

\* the positions of the events of invocation i of the response to call n
EventsOf(n, i) == {k \in 1..Len(events) : events[k].call = n /\ events[k].i = i}

\* the tool calls of the assistant messages of the conversation
AllToolCalls ==
    UNION { Range(Unwrap(messages[m].tool_calls)) :
              m \in {x \in 1..Len(messages) :
                        /\ messages[x].role = "assistant"
                        /\ IsSome(messages[x].tool_calls)} }

\* the tool-result messages that answer the invocation with this id
ToolResults(id) ==
    {m \in 1..Len(messages) :
        messages[m].role = "tool" /\ messages[m].tool_call_id = Some(id)}

\* should_execute returned Ok(true) for invocation i of call n
Approved(n, i) == \E k \in EventsOf(n, i) : IsEv(k, "should_execute", "true")

\* an external effect happened for invocation i of call n
Effected(n, i) == \E k \in EventsOf(n, i) : events[k].e = "effect"

\* the run that processed event k returned right after it: the event that
\* follows k is the return, with this detail
ReturnsAfter(k, d) == k < Len(events) /\ IsEv(k + 1, "return", d)

\* after the return at position k nothing happened in that run: the log
\* ends there, or its next event is the next REPL submission
RunOverAt(k) == k = Len(events) \/ events[k + 1].e = "user"

(***************************************************************************)
(* C1: an external effect (the spawn of the shell command, or the read,    *)
(* write, mkdir or listing of a filesystem tool) happens for a tool        *)
(* invocation only after, in this order, should_execute returned true for  *)
(* it, validate_operation succeeded and, for the filesystem tools,         *)
(* validate_path succeeded; and no effect happens for an invocation that   *)
(* was rejected or denied by either validation.                            *)
(***************************************************************************)
C1_EffectOnlyAfterGates ==
    \A k \in 1..Len(events) :
        events[k].e = "effect" =>
            /\ \E a \in 1..k :
                  /\ IsEv(a, "should_execute", "true")
                  /\ SameInvocation(a, k)
                  /\ \E b \in (a + 1)..k :
                        /\ IsEv(b, "validate_operation", "ok")
                        /\ SameInvocation(b, k)
                        /\ events[k].d \in FsTools =>
                              \E c \in (b + 1)..k :
                                  /\ IsEv(c, "validate_path", "ok")
                                  /\ SameInvocation(c, k)
            /\ \A j \in 1..Len(events) :
                  SameInvocation(j, k) =>
                      /\ ~IsEv(j, "should_execute", "false")
                      /\ ~IsEv(j, "should_execute", "err")
                      /\ ~IsEv(j, "validate_operation", "denied")
                      /\ ~IsEv(j, "validate_path", "denied")

\* an operator accepted a shell command and it was spawned
C1_Witness ==
    /\ ~accept_all
    /\ \E k \in 1..Len(events) :
          /\ IsEv(k, "effect", "shell")
          /\ \E j \in 1..k : SameInvocation(j, k) /\ IsEv(j, "choice", "Accept")

(***************************************************************************)
(* C2: stop at first rejection.  When the operator accepts the first       *)
(* invocation of a response and rejects the second, the first is executed  *)
(* once and gets a tool-result message, the second is reported rejected    *)
(* and gets none, the third has no event at all (it is neither parsed nor  *)
(* prompted for nor executed), run returns Ok and nothing more happens in  *)
(* that run: the model is not called again.                                *)
(***************************************************************************)
AcceptedThenRejected(n) ==
    /\ \E k \in 1..Len(events) :
          /\ events[k].e = "choice" /\ events[k].d = "Reject"
          /\ events[k].call = n /\ events[k].i = 2
    /\ \E k \in 1..Len(events) :
          /\ events[k].e = "choice" /\ events[k].d = "Accept"
          /\ events[k].call = n /\ events[k].i = 1

C3_ShellDisallowed ==
    ~security.config.security.allowed_operations.shell =>
        /\ \A k \in 1..Len(events) :
              /\ ~IsEv(k, "effect", "shell")
              /\ ~IsEv(k, "tool_result", "shell")
              /\ (IsEv(k, "should_execute", "true") /\ events[k].op = "shell") =>
                    /\ k + 2 <= Len(events)
                    /\ IsEv(k + 1, "validate_operation", "denied")
                    /\ IsEv(k + 2, "return", "anyhow")
                    /\ RunOverAt(k + 2)
                    /\ (k + 2 = Len(events) =>
                          run_result = Some(Err(Error("anyhow",
                              <<"Operation ", "shell", " is not allowed">>))))
        /\ \A m \in 1..Len(messages) : messages[m].role # "tool"

\* the operator accepted a shell command that the configuration disallows
C3_Witness ==
    /\ ~security.config.security.allowed_operations.shell
    /\ ~accept_all
    /\ \E k \in 1..Len(events) :
          /\ IsEv(k, "choice", "Accept")
          /\ events[k].op = "shell"

\* the tool call with identifier id, and a string field of its arguments
\* (None when the arguments do not parse or the field is absent)
Invocation(id) == CHOOSE tc \in AllToolCalls : tc.id = id

ArgOf(id, key) ==
    LET parsed == from_str(Invocation(id).function.arguments)
    IN IF parsed.ok THEN get_str(parsed.v, key) ELSE None

\* the configuration's permission for the operation kind that matches a
\* filesystem tool: fs.readfile for fs_readfile, and so on
PermissionFor(tool) ==
    CASE tool = "fs_readfile" ->
            security.config.security.allowed_operations.fs_readfile
      [] tool = "fs_writefile" ->
            security.config.security.allowed_operations.fs_writefile
      [] tool = "fs_makedir" ->
            security.config.security.allowed_operations.fs_makedir
      [] tool = "fs_listdir" ->
            security.config.security.allowed_operations.fs_listdir

(***************************************************************************)
(* C4: an approved fs_readfile, fs_writefile, fs_makedir or fs_listdir     *)
(* invocation passes the operation check exactly when the configuration's  *)
(* permission for fs.readfile, fs.writefile, fs.makedir or fs.listdir is   *)
(* true.  The code does not do this: execute_action hands the tool name    *)
(* (fs_readfile) to validate_operation, whose table knows fs.readfile, so  *)
(* the check fails whatever the permission is.                             *)
(***************************************************************************)
C4_FsOperationCheckMatchesPermission ==
    \A k \in 1..Len(events) :
        (IsEv(k, "should_execute", "true") /\ events[k].op \in FsTools) =>
            /\ k < Len(events)
            /\ events[k + 1].e = "validate_operation"
            /\ events[k + 1].d = "ok" <=> PermissionFor(events[k].op)

(***************************************************************************)
(* C5: round trip through the dispatcher.  When an fs_writefile{path,      *)
(* content} invocation was approved and later an fs_readfile{path}         *)
(* invocation of the same path was approved, the path passing              *)
(* validate_path, the read has a tool-result message whose content is      *)
(* content.  The code does not do this: both invocations fail at           *)
(* validate_operation (C4), nothing is written and no tool-result exists.  *)
(***************************************************************************)
C5_WriteReadRoundTrip ==
    \A w \in 1..Len(events), r \in 1..Len(events) :
        LET wid == <<events[w].call, events[w].i>>
            rid == <<events[r].call, events[r].i>>
        IN (/\ w < r
            /\ IsEv(w, "should_execute", "true")
            /\ events[w].op = "fs_writefile"
            /\ IsEv(r, "should_execute", "true")
            /\ events[r].op = "fs_readfile"
            /\ IsSome(ArgOf(wid, "path")) /\ IsSome(ArgOf(wid, "content"))
            /\ ArgOf(rid, "path") = ArgOf(wid, "path")
            /\ validate_path(security, Unwrap(ArgOf(wid, "path"))).ok
            /\ ~\E x \in (w + 1)..(r - 1) :
                    /\ IsEv(x, "should_execute", "true")
                    /\ events[x].op = "fs_writefile")
           => \E m \in ToolResults(rid) :
                 messages[m].content = ArgOf(wid, "content")

(***************************************************************************)
(* C6: with .env in blocked_extensions, an approved fs_readfile of         *)
(* secrets.env is denied in both approval modes: the file is not read, no  *)
(* tool-result is appended, run returns an error, and that error names the *)
(* blocked extension.  The code denies the read, but with the error of     *)
(* validate_operation (C4), "Operation fs_readfile is not allowed", which  *)
(* does not name the extension; validate_path is not reached.              *)
(***************************************************************************)
C6_BlockedExtensionDenied ==
    DotEnv \in Range(security.config.security.blocked_extensions) =>
        \A k \in 1..Len(events) :
            LET id == <<events[k].call, events[k].i>>
            IN (/\ IsEv(k, "should_execute", "true")
                /\ events[k].op = "fs_readfile"
                /\ ArgOf(id, "path") = Some(Path_secrets_env))
               => /\ ~Effected(id[1], id[2])
                  /\ ToolResults(id) = {}
                  /\ \E j \in EventsOf(id[1], id[2]) :
                        /\ events[j].e = "return"
                        /\ events[j].d # "ok"
                        /\ j = Len(events) =>
                              /\ IsSome(run_result)
                              /\ ~Unwrap(run_result).ok
                              /\ Contains(Unwrap(run_result).e.msg, DotEnv)

\* the tool call tc reaches should_execute: an execute_shell call with a
\* string command, or a filesystem tool, whose arguments parse
AsksApproval(tc) ==
    LET parsed == from_str(tc.function.arguments)
    IN /\ parsed.ok
       /\ \/ /\ tc.function.name = "execute_shell"
             /\ IsSome(get_str(parsed.v, "command"))
          \/ tc.function.name \in FsTools

(***************************************************************************)
(* C7: in accept-all mode should_execute returns true for every operation  *)
(* kind and description, whitelisted or not, and never presents a prompt:  *)
(* no prompt is shown and no operator choice is taken, every value of      *)
(* should_execute is true, and every invocation that is processed and      *)
(* needs approval is announced as auto-approved and approved.              *)
(***************************************************************************)
C7_AcceptAllAlwaysTrue ==
    accept_all =>
        \A k \in 1..Len(events) :
            /\ events[k].e \notin {"prompt", "choice"}
            /\ events[k].e = "should_execute" => events[k].d = "true"
            /\ (events[k].e = "parse" /\ events[k].d = "ok"
                    /\ AsksApproval(Invocation(<<events[k].call, events[k].i>>))) =>
                  /\ k + 2 <= Len(events)
                  /\ events[k + 1].e = "print"
                  /\ events[k + 1].d \in {"Auto-approved (whitelisted)",
                                          "Auto-approved"}
                  /\ IsEv(k + 2, "should_execute", "true")

\* accept-all mode approved a whitelisted shell command and an operation
\* that is not whitelisted
C7_Witness ==
    /\ accept_all
    /\ \E j \in 1..Len(events), k \in 1..Len(events) :
          /\ IsEv(j, "print", "Auto-approved (whitelisted)")
          /\ IsEv(j + 1, "should_execute", "true")
          /\ IsEv(k, "print", "Auto-approved")
          /\ events[k].op = "fs_readfile"
          /\ IsEv(k + 1, "should_execute", "true")

\* the App self with the whitelist wl in place of its own
WithWhitelist(self, wl) == [self EXCEPT !.security.config.whitelist = wl]

\* in interactive mode should_execute is the operator's choice: each of its
\* values follows a prompt and the choice taken at it and is true exactly
\* when the choice is Accept, and each effect belongs to an invocation
\* whose prompt was answered Accept
ChoiceDecides ==
    ~accept_all =>
        \A k \in 1..Len(events) :
            /\ events[k].e = "should_execute" =>
                  /\ k > 2
                  /\ events[k - 2].e = "prompt"
                  /\ events[k - 1].e = "choice"
                  /\ SameInvocation(k - 2, k) /\ SameInvocation(k - 1, k)
                  /\ events[k].d = "true" <=> events[k - 1].d = "Accept"
                  /\ events[k].d = "err" <=> events[k - 1].d = "Cancel"
            /\ events[k].e = "effect" =>
                  \E j \in 1..k :
                      SameInvocation(j, k) /\ IsEv(j, "choice", "Accept")

\* a step of the tool loop in interactive mode is the step the same App
\* takes with any other whitelist, the tool call, the operator's choice and
\* the outcome of a spawn being the same: the prompts shown, the value of
\* should_execute, the effects, the file system, the transcript and the
\* result of run after the step are the same
WhitelistIgnored ==
    ~accept_all =>
        \A c \in Choices, o \in ShellOutcomes :
            ToolLoop(Self, c, o) =>
                \A wl \in Whitelists : ToolLoop(WithWhitelist(Self, wl), c, o)

(***************************************************************************)
(* C8: in interactive mode the whitelist has no influence.  Two runs that  *)
(* differ only in the whitelist and receive the same responses and the     *)
(* same operator choices take the same steps (the whitelist is read only   *)
(* in the tool loop, by should_execute), and should_execute returns true   *)
(* exactly when the operator chose Accept, so that nothing is executed     *)
(* without a prompt answered Accept.                                       *)
(***************************************************************************)
C8_WhitelistNoInfluence == []ChoiceDecides /\ [][WhitelistIgnored]_vars

\* in interactive mode, with a whitelist that names the command, the
\* operator was asked about the shell command, accepted and it was spawned
C8_Witness ==
    /\ ~accept_all
    /\ is_whitelisted(security, Cmd_ls)
    /\ \E k \in 1..Len(events) :
          /\ IsEv(k, "choice", "Accept")
          /\ events[k].op = "shell"
          /\ \E j \in k..Len(events) :
                SameInvocation(j, k) /\ IsEv(j, "effect", "shell")

AssistantMessages ==
    LET IsAssistant(m) == m.role = "assistant"
    IN SelectSeq(messages, IsAssistant)

\* the assistant message at position a of the transcript carries tool
\* call id
Carries(a, id) ==
    /\ messages[a].role = "assistant"
    /\ IsSome(messages[a].tool_calls)
    /\ \E x \in 1..Len(Unwrap(messages[a].tool_calls)) :
          Unwrap(messages[a].tool_calls)[x].id = id

(***************************************************************************)
(* C10: every response LlmClient::chat returned is in the transcript, in   *)
(* order, from the moment it is received, so also when run ends after it;  *)
(* whatever happens for one of its tool invocations (parsing, prompt,      *)
(* validation, effect, tool-result, return) happens with the response      *)
(* already appended, and while the tool loop runs the last assistant       *)
(* message is the response whose tool calls it iterates over.              *)
(***************************************************************************)
C10_ResponseAppendedFirst ==
    /\ AssistantMessages = received
    /\ LET ids == {tc.id : tc \in AllToolCalls}
       IN \A k \in 1..Len(events) :
              events[k].i > 0 => <<events[k].call, events[k].i>> \in ids
    /\ \A m \in 1..Len(messages) :
          messages[m].role = "tool" =>
              \E a \in 1..(m - 1) : Carries(a, Unwrap(messages[m].tool_call_id))
    /\ pc = "ProcessingToolCalls" =>
          /\ Len(received) > 0
          /\ received[Len(received)].tool_calls = Some(tool_calls)

\* run ended with the error of a validation for a tool invocation, and the
\* response that carried the invocation is the last message of the
\* transcript
C10_Witness ==
    /\ IsSome(run_result) /\ ~Unwrap(run_result).ok
    /\ Len(events) > 1
    /\ IsEv(Len(events) - 1, "validate_operation", "denied")
    /\ Len(received) > 0
    /\ messages[Len(messages)] = received[Len(received)]

\* the operation type under which App::run asks approval for the tool call
OpTypeOf(tc) ==
    IF tc.function.name = "execute_shell" THEN "shell" ELSE tc.function.name

\* the positions of the tool-result messages of the transcript
ToolMessages == {m \in 1..Len(messages) : messages[m].role = "tool"}

(***************************************************************************)
(* C11: the tool invocations of a response are processed in emission       *)
(* order, one at a time.  In the log, what follows the receipt of a        *)
(* response starts with invocation 1, stays with an invocation or moves to *)
(* the next one, and moves on only when the invocation is completed (its   *)
(* tool-result is appended, or it is skipped); the invocation asked about  *)
(* at position i is the i-th the model emitted; and the tool-result        *)
(* messages of a response are in the order of their invocations.           *)
(***************************************************************************)
C11_InEmissionOrder ==
    /\ \A k \in 1..(Len(events) - 1) :
          /\ events[k].call <= events[k + 1].call
          /\ events[k + 1].i > 0 =>
                /\ events[k + 1].call = events[k].call
                /\ events[k + 1].i \in {events[k].i, events[k].i + 1}
                /\ events[k + 1].i = events[k].i + 1 =>
                      /\ events[k + 1].e = "parse"
                      /\ IF events[k].i = 0
                         THEN IsEv(k, "chat", "ok")
                         ELSE events[k].e \in {"tool_result", "skip"}
    /\ \A k \in 1..Len(events) :
          events[k].e = "should_execute" =>
              events[k].op = OpTypeOf(Invocation(<<events[k].call, events[k].i>>))
    /\ \A a \in ToolMessages, b \in ToolMessages :
          LET ida == Unwrap(messages[a].tool_call_id)
              idb == Unwrap(messages[b].tool_call_id)
          IN (a < b /\ ida[1] = idb[1]) => ida[2] < idb[2]

\* a response with a shell command and a file read, in this order, whose
\* shell command was executed and answered and whose read was then asked
\* about
C11_Witness ==
    \E a \in ToolMessages, k \in 1..Len(events) :
        /\ Unwrap(messages[a].tool_call_id) = <<events[k].call, 1>>
        /\ events[k].i = 2
        /\ events[k].e = "should_execute"
        /\ events[k].op = "fs_readfile"

\* the response whose receipt is event k of the log (a "chat ok" event)
ResponseAt(k) ==
    received[Cardinality({x \in 1..k : IsEv(x, "chat", "ok")})]

\* a response with plain content and no tool invocation
PlainContent(r) ==
    /\ IsSome(r.content)
    /\ (IsSome(r.tool_calls) => Unwrap(r.tool_calls) = <<>>)

(***************************************************************************)
(* C12: when a response carries plain content and no tool invocations,     *)
(* run returns Ok right after it: the receipt is followed by the return    *)
(* and by nothing more in that run.  The code does this only when          *)
(* tool_calls is absent: with an empty tool_calls array the first branch   *)
(* of App::run is taken, the loop over the tool calls does nothing and the *)
(* model is called again.                                                  *)
(***************************************************************************)
C12_PlainContentEndsRun ==
    \A k \in 1..Len(events) :
        (IsEv(k, "chat", "ok") /\ PlainContent(ResponseAt(k))) =>
            /\ k < Len(events)
            /\ IsEv(k + 1, "return", "ok")
            /\ RunOverAt(k + 1)

\* a failed model call ends the run: its event is followed by the return
\* of the error and by nothing more in that run
ChatFailureFatal ==
    \A k \in 1..Len(events) :
        IsEv(k, "chat", "err") =>
            /\ k < Len(events)
            /\ events[k + 1].e = "return"
            /\ events[k + 1].d # "ok"
            /\ RunOverAt(k + 1)
            /\ k + 1 = Len(events) =>
                  /\ IsSome(run_result)
                  /\ Unwrap(run_result) \in ChatErrors
                  /\ pc \in {"repl", "exited"}

\* the step of a failed model call (a call is counted, no response is
\* received) appends no message and has no effect
ChatFailureStep ==
    (nCalls' = nCalls + 1 /\ received' = received) =>
        /\ Len(messages') = Len(messages)
        /\ \A m \in 2..Len(messages) : messages'[m] = messages[m]
        /\ fs' = fs
        /\ pc' # "ProcessingToolCalls"

(***************************************************************************)
(* C13: a failed model call (transport error, non-2xx status, unparsable   *)
(* body or zero choices) is fatal to the run and is not retried: run       *)
(* returns the error after that one attempt, no message is appended and no *)
(* operation is executed afterwards.                                       *)
(***************************************************************************)
C13_ChatFailureIsFatal == []ChatFailureFatal /\ [][ChatFailureStep]_vars

\* the second model call of a run failed, after a tool call of the first
\* response was executed and answered
C13_Witness ==
    /\ Len(events) > 1
    /\ IsEv(Len(events) - 1, "chat", "err")
    /\ IsSome(run_result) /\ ~Unwrap(run_result).ok
    /\ messages[Len(messages)].role = "tool"

(***************************************************************************)
(* C14: when the argument blob of a tool invocation is not valid JSON the  *)
(* turn is aborted with an error, whatever the tool name is (execute_shell,*)
(* a filesystem tool or an unknown tool): the parsing fails exactly for    *)
(* the malformed blobs; that invocation and the later ones of the response *)
(* are neither prompted for nor executed and get no tool-result; run       *)
(* returns the error of the parser and the model is not called again in    *)
(* that run.                                                               *)
(***************************************************************************)
C14_MalformedArgumentsAbort ==
    \A k \in {x \in 1..Len(events) : events[x].e = "parse"} :
        LET n == events[k].call
            i == events[k].i
        IN /\ events[k].d = "err" <=>
                 ~Invocation(<<n, i>>).function.arguments.wf
           /\ events[k].d = "err" =>
                 /\ k < Len(events)
                 /\ IsEv(k + 1, "return", "serde_json")
                 /\ RunOverAt(k + 1)
                 /\ k + 1 = Len(events) =>
                       /\ run_result = Some(from_str(Malformed))
                       /\ pc \in {"repl", "exited"}
                 /\ \A j \in 1..Len(events) :
                       (events[j].call = n /\ events[j].i >= i) =>
                           j \in {k, k + 1}
                 /\ \A m \in ToolMessages :
                       LET id == Unwrap(messages[m].tool_call_id)
                       IN id[1] = n => id[2] < i

\* a response with two invocations of an unknown tool whose first argument
\* blob is malformed
C14_Witness ==
    \E k \in 1..Len(events) :
        /\ IsEv(k, "parse", "err")
        /\ Invocation(<<events[k].call, events[k].i>>).function.name
              = "web_search"
        /\ \E tc \in AllToolCalls : tc.id = <<events[k].call, events[k].i + 1>>

\* the arguments of the tool call tc parse but lack a required string
\* field: command for execute_shell, path for the filesystem tools, content
\* for fs_writefile
MissingRequired(tc) ==
    LET parsed == from_str(tc.function.arguments)
    IN /\ parsed.ok
       /\ \/ /\ tc.function.name = "execute_shell"
             /\ ~IsSome(get_str(parsed.v, "command"))
          \/ /\ tc.function.name \in FsTools
             /\ ~IsSome(get_str(parsed.v, "path"))
          \/ /\ tc.function.name = "fs_writefile"
             /\ ~IsSome(get_str(parsed.v, "content"))

(***************************************************************************)
(* C15: a tool invocation whose arguments parse but lack a required string *)
(* field ends the run with an argument error: unless the operator rejects  *)
(* it or cancels its prompt, run returns an error for it that is not a     *)
(* security denial and not a crash, and the invocation is not passed over. *)
(* The code does not do this: execute_shell without a command is passed    *)
(* over silently, and a filesystem tool without a path is asked about (as  *)
(* an empty path) and then denied by validate_operation (C4).              *)
(***************************************************************************)
C15_MissingFieldIsArgumentError ==
    \A k \in {x \in 1..Len(events) : IsEv(x, "parse", "ok")} :
        LET n == events[k].call
            i == events[k].i
        IN (/\ MissingRequired(Invocation(<<n, i>>))
            /\ \A j \in EventsOf(n, i) :
                  ~IsEv(j, "choice", "Reject") /\ ~IsEv(j, "choice", "Cancel"))
           => /\ \E j \in EventsOf(n, i) :
                    events[j].e = "return" /\ events[j].d \notin {"ok", "panic"}
              /\ \A j \in EventsOf(n, i) :
                    /\ events[j].e # "skip"
                    /\ ~IsEv(j, "validate_operation", "denied")
                    /\ ~IsEv(j, "validate_path", "denied")

(***************************************************************************)
(* C16: when validate_operation or validate_path denies an approved        *)
(* invocation, the denial is the error run returns: the next thing that    *)
(* happens is the return of that error, no tool-result is appended for the *)
(* invocation, its effect is not performed, no later invocation of the     *)
(* response is processed and the model is not called again in that run.    *)
(***************************************************************************)
C16_DenialIsRunError ==
    \A k \in {x \in 1..Len(events) :
                 /\ events[x].d = "denied"
                 /\ events[x].e \in {"validate_operation", "validate_path"}} :
        LET n == events[k].call
            i == events[k].i
        IN /\ \E a \in 1..k :
                 SameInvocation(a, k) /\ IsEv(a, "should_execute", "true")
           /\ k < Len(events)
           /\ IsEv(k + 1, "return", "anyhow")
           /\ RunOverAt(k + 1)
           /\ k + 1 = Len(events) =>
                 /\ pc \in {"repl", "exited"}
                 /\ run_result = Some(
                       IF events[k].e = "validate_operation"
                       THEN validate_operation(security, events[k].op)
                       ELSE validate_path(security,
                                          Unwrap(ArgOf(<<n, i>>, "path"))))
           /\ ~Effected(n, i)
           /\ ToolResults(<<n, i>>) = {}
           /\ \A j \in 1..Len(events) :
                 events[j].call = n => events[j].i <= i

\* the first of several invocations of a response was approved and denied
C16_Witness ==
    \E k \in 1..Len(events) :
        /\ IsEv(k, "validate_operation", "denied")
        /\ events[k].i = 1
        /\ \E tc \in AllToolCalls : tc.id = <<events[k].call, 2>>

\* the position of the last assistant message before position m of the
\* transcript (0 when there is none)
LastAssistantBefore(m) ==
    SetMax({0} \cup {a \in 1..(m - 1) : messages[a].role = "assistant"})

(***************************************************************************)
(* C17: each tool-result message of the transcript carries the id of an    *)
(* invocation of the most recent assistant message before it, and between  *)
(* that assistant message and the tool-result there are only tool-result   *)
(* messages.                                                               *)
(***************************************************************************)
C17_ToolResultFollowsItsTurn ==
    \A m \in ToolMessages :
        LET a == LastAssistantBefore(m)
        IN /\ a > 0
           /\ IsSome(messages[m].tool_call_id)
           /\ Carries(a, Unwrap(messages[m].tool_call_id))
           /\ \A x \in (a + 1)..(m - 1) : messages[x].role = "tool"

\* a transcript with the tool-results of two turns, the second turn after
\* a new user message
C17_Witness ==
    \E m \in ToolMessages, k \in ToolMessages :
        /\ m < k
        /\ LastAssistantBefore(m) < LastAssistantBefore(k)
        /\ \E u \in (m + 1)..(k - 1) : messages[u].role = "user"

(***************************************************************************)
(* C18: every tool-result message is tagged with the id and the tool name  *)
(* of the invocation it answers: its tool_call_id is the id of a tool call *)
(* of the transcript and its name is the function name of that call.  The  *)
(* code does not do this for execute_shell: App::run tags its result       *)
(* "shell".                                                                *)
(***************************************************************************)
C18_ToolResultTagged ==
    \A m \in ToolMessages :
        /\ IsSome(messages[m].tool_call_id)
        /\ \E tc \in AllToolCalls :
              /\ tc.id = Unwrap(messages[m].tool_call_id)
              /\ messages[m].name = Some(tc.function.name)

\* a step keeps the messages that follow the system message: none is
\* removed, moved or modified
KeepsMessages ==
    /\ Len(messages') >= Len(messages)
    /\ \A m \in 2..Len(messages) : messages'[m] = messages[m]

\* a step keeps the system message as it is
KeepsSystemMessage == messages'[1] = messages[1]

(***************************************************************************)
(* C19: the conversation is append-only: no step of the program            *)
(* (add_user_message, or any step of run, also of a run that ends in a     *)
(* rejection or an error) removes, reorders or modifies a message of the   *)
(* conversation, and its length never decreases.  As stated this fails for *)
(* the system message, which update_system_message_cwd rewrites in place   *)
(* before a model call when it still holds the text of a placeholder.      *)
(***************************************************************************)
C19_AppendOnly == [][KeepsMessages /\ KeepsSystemMessage]_vars

(***************************************************************************)
(* C19, amended: the conversation is append-only after its first message:  *)
(* no step removes, reorders or modifies a message that follows the system *)
(* message, the length never decreases, and the first message stays a      *)
(* system message whose content alone may be rewritten.                    *)
(***************************************************************************)
C19_AppendOnlyAfterSystemMessage ==
    [][/\ KeepsMessages
       /\ messages'[1].role = "system"
       /\ [messages'[1] EXCEPT !.content = None]
             = [messages[1] EXCEPT !.content = None]]_vars

\* the system message is no longer the one the conversation started with,
\* and the conversation has grown by a response and a tool-result
C19_Witness ==
    /\ messages[1] # system_message(cwd)
    /\ \E m \in ToolMessages : m > 2

\* add_user_message appends the prompt to the conversation
SubmitAppends ==
    nPrompts' = nPrompts + 1 =>
        \E p \in UserPrompts : messages' = Append(messages, user_message(p))

\* a model call is handed the whole conversation: as many messages, a
\* system message first and the same messages after it
WholeTranscriptSent ==
    nCalls' = nCalls + 1 =>
        /\ Len(sent') = Len(messages)
        /\ sent'[1].role = "system"
        /\ \A m \in 2..Len(messages) : sent'[m] = messages[m]

(***************************************************************************)
(* C20: re-entrant use.  After run has returned, with any outcome,         *)
(* add_user_message appends the new prompt to the conversation as the      *)
(* earlier runs left it, and the model call of the next run is handed that *)
(* whole conversation, the new prompt last; no step in between drops or    *)
(* resets a message of an earlier run.                                     *)
(***************************************************************************)
C20_ReentrantRunSendsAll ==
    [][SubmitAppends /\ WholeTranscriptSent /\ KeepsMessages]_vars

\* a run ended with an error, the operator submitted a new prompt and the
\* model was called with the response of the failed run and the new prompt
C20_Witness ==
    /\ sent # <<>>
    /\ sent[Len(sent)].role = "user"
    /\ \E m \in 1..Len(sent) : sent[m].role = "assistant"
    /\ \E k \in 1..(Len(events) - 1) :
          /\ events[k].e = "return" /\ events[k].d # "ok"
          /\ events[k + 1].e = "user"

(***************************************************************************)
(* The working directory of the process as the environment may change it.  *)
(***************************************************************************)
\* a second plain directory
OtherDir == <<"/", "v">>

\* the working directory of the process gets another name (it is renamed
\* by another process or by a shell command the program has run);
\* std::env::current_dir() returns the new name from then on
ChangeDir ==
    /\ pc # "exited"
    /\ cwd' \in {WorkDir, OtherDir} \ {cwd}
    /\ UNCHANGED <<messages, accept_all, security, pc, tool_calls, idx,
                   run_result, fs, events, nCalls, nTools, nPrompts,
                   received, sent, vocabulary, probe, ctrl_c_pressed,
                   runnerVars>>

\* the program in an environment that changes its working directory
SpecMoved ==
    InitIn({WorkDir}, {DefaultConfig}, {{Shell_ls, Read_secrets}})
        /\ [][Next \/ ChangeDir]_vars

(***************************************************************************)
(* C21: the system message handed to a model call is the persisted         *)
(* template with the working directory and the flags of the moment of the  *)
(* call.  The code does not do this: App::new has the placeholders         *)
(* replaced once, and update_system_message_cwd replaces placeholders in   *)
(* the message, which has none left, so the message keeps the directory    *)
(* and the flags of the moment the App was built.                          *)
(***************************************************************************)
C21_SystemMessageReflectsCwd ==
    [][nCalls' = nCalls + 1 =>
          /\ sent' # <<>>
          /\ sent'[1].role = "system"
          /\ sent'[1].content = Some(load_system_prompt(cwd))]_vars

(***************************************************************************)
(* SecurityValidator on its own: one of its methods is called on a         *)
(* validator built from one of the configurations below, in a process      *)
(* whose working directory is cwd.  probe is the call: the method, its     *)
(* argument and, when done, its result.                                    *)
(***************************************************************************)
MaxComponents == 3   \* components of the path handed to validate_path
MaxPatterns == 2     \* patterns of the whitelist

\* the names the components of a path are taken from
Names ==
    { <<"h">>, <<".", "a", "i", "s", "h">>, <<".", ".">>,
      <<"s">> \o DotEnv, <<"x", ".", "l", "o", "g">>, Path_a }

\* the relative paths of at most k components
RelPaths(k) == {Join(c, "/") : c \in UNION {[1..m -> Names] : m \in 1..k}}

\* the paths handed to validate_path, relative and absolute
ProbePaths ==
    RelPaths(MaxComponents) \cup {<<"/">> \o p : p \in RelPaths(MaxComponents)}

\* the security sections validate_path is called under
PathConfigs ==
    { [DefaultConfig EXCEPT !.security.allow_absolute_paths = a,
                            !.security.allow_config_path_access = c,
                            !.security.blocked_extensions = b] :
        a \in BOOLEAN, c \in BOOLEAN, b \in {<<>>, <<DotEnv>>} }

\* .aishignore: absent or empty, or with a line that does not compile and
\* the line *.log
ProbeIgnoreFiles == {<<>>, << <<"(">> >> \o IgnoreFile}

\* the six operation kinds of the allowed_operations table
OperationKinds ==
    {"fs.makedir", "fs.makefile", "fs.writefile", "fs.readfile",
     "fs.listdir", "shell"}

\* the strings handed to validate_operation
ProbeOperations ==
    OperationKinds
        \cup {"fs_readfile", "fs_makedir", "execute_shell", "", "Shell",
              "fs.delete"}

\* the configurations validate_operation is called under: every table
OperationConfigs ==
    { [DefaultConfig EXCEPT !.security.allowed_operations = t] :
        t \in [DOMAIN AllAllowed -> BOOLEAN] }

\* whitelist patterns: two that do not compile, three that do
Patterns ==
    { <<"(">>, <<"*">>, Cmd_ls, <<"l", ".", "*", "x">>, <<"r">> }

\* the whitelists is_whitelisted is called under
ProbeWhitelists == UNION {[1..m -> Patterns] : m \in 0..MaxPatterns}

WhitelistConfigs ==
    { [DefaultConfig EXCEPT !.whitelist = wl] : wl \in ProbeWhitelists }

\* the command texts handed to is_whitelisted
ProbeCommands ==
    { Cmd_ls, <<"r", "m">>, <<>>, <<"a", "l", "s">>, <<"l", "a", "x">> }

Call(fn, arg) == [fn |-> fn, arg |-> arg, done |-> FALSE, res |-> None]

\* no App exists
AppAbsent ==
    /\ messages = <<>>
    /\ accept_all = FALSE
    /\ pc = "none"
    /\ tool_calls = <<>>
    /\ idx = 0
    /\ run_result = None
    /\ fs = [files |-> [k \in {} |-> <<>>], dirs |-> {}]
    /\ events = <<>>
    /\ nCalls = 0
    /\ nTools = 0
    /\ nPrompts = 0
    /\ received = <<>>
    /\ sent = <<>>
    /\ vocabulary = {}
    /\ ctrl_c_pressed = FALSE

appVars == <<messages, accept_all, pc, tool_calls, idx, run_result, fs,
             events, nCalls, nTools, nPrompts, received, sent, vocabulary,
             ctrl_c_pressed>>

\* a validator is built by SecurityValidator::new and one method is about
\* to be called
InitValidator ==
    /\ AppAbsent
    /\ RunnerIdle
    /\ \/ /\ \E cfg \in PathConfigs, ig \in ProbeIgnoreFiles :
                security = SecurityValidator_new(cfg, ig)
          /\ cwd \in {WorkDir, HomeDir}
          /\ \E path \in ProbePaths : probe = Call("validate_path", path)
       \/ /\ \E cfg \in OperationConfigs :
                security = SecurityValidator_new(cfg, IgnoreFile)
          /\ cwd = WorkDir
          /\ \E op \in ProbeOperations : probe = Call("validate_operation", op)
       \/ /\ \E cfg \in WhitelistConfigs :
                security = SecurityValidator_new(cfg, IgnoreFile)
          /\ cwd = WorkDir
          /\ \E c \in ProbeCommands : probe = Call("is_whitelisted", c)

\* the method fn has been called and has not returned
Pending(fn) == probe # None /\ probe.fn = fn /\ ~probe.done

\* the call of validate_path returns
CallValidatePath ==
    /\ Pending("validate_path")
    /\ probe' = [probe EXCEPT !.done = TRUE,
                              !.res = validate_path(security, probe.arg)]
    /\ UNCHANGED <<appVars, security, cwd, runnerVars>>

\* the call of validate_operation returns
CallValidateOperation ==
    /\ Pending("validate_operation")
    /\ probe' = [probe EXCEPT !.done = TRUE,
                              !.res = validate_operation(security, probe.arg)]
    /\ UNCHANGED <<appVars, security, cwd, runnerVars>>

\* the call of is_whitelisted returns
CallIsWhitelisted ==
    /\ Pending("is_whitelisted")
    /\ probe' = [probe EXCEPT !.done = TRUE,
                              !.res = is_whitelisted(security, probe.arg)]
    /\ UNCHANGED <<appVars, security, cwd, runnerVars>>

NextValidator ==
    \/ CallValidatePath
    \/ CallValidateOperation
    \/ CallIsWhitelisted

SpecValidator == InitValidator /\ [][NextValidator]_vars

\* the call of the method fn has returned
Done(fn) == probe # None /\ probe.fn = fn /\ probe.done

\* the four tests of validate_path, each on its own
AbsoluteViolated(self, path) ==
    is_absolute(path) /\ ~self.config.security.allow_absolute_paths

ConfigDirViolated(self, path) ==
    ~self.config.security.allow_config_path_access
        /\ starts_with(path, ConfigDir)

ExtensionViolated(self, path) ==
    /\ IsSome(extension(path))
    /\ (<<".">> \o Unwrap(extension(path)))
           \in Range(self.config.security.blocked_extensions)

IgnoreViolated(self, path) ==
    \E i \in 1..Len(self.ignore_patterns) :
        is_match(self.ignore_patterns[i], path)

\* the tests path fails, by their position in the order absolute path,
\* configuration directory, blocked extension, ignore pattern
ViolatedChecks(self, path) ==
    (IF AbsoluteViolated(self, path) THEN {1} ELSE {})
        \cup (IF ConfigDirViolated(self, path) THEN {2} ELSE {})
        \cup (IF ExtensionViolated(self, path) THEN {3} ELSE {})
        \cup (IF IgnoreViolated(self, path) THEN {4} ELSE {})

\* the first words of the message of the error of each test
CheckMessage ==
    <<"Absolute paths are not allowed",
      "Access to configuration directory is not allowed",
      "File extension ",
      "Path matches ignore pattern">>

(***************************************************************************)
(* C22: validate_path applies its four tests in the order absolute path,   *)
(* configuration directory, blocked extension, ignore pattern and stops at *)
(* the first that fails: its result is Ok exactly when the path fails none *)
(* of them, and otherwise the error of the first test the path fails.      *)
(***************************************************************************)
C22_ChecksInOrder ==
    Done("validate_path") =>
        LET failed == ViolatedChecks(security, probe.arg)
        IN IF failed = {} THEN probe.res = Ok(<<>>)
           ELSE /\ ~probe.res.ok
                /\ \E k \in failed :
                      /\ \A j \in failed : k <= j
                      /\ probe.res.e.msg[1] = CheckMessage[k]

\* validate_path has returned the error of the configuration directory for
\* a path that also has a blocked extension
C22_Witness ==
    /\ Done("validate_path")
    /\ ViolatedChecks(security, probe.arg) = {2, 3}
    /\ ~probe.res.ok
    /\ probe.res.e.msg[1] = CheckMessage[2]

\* the location the components comps lead to from the location acc: "." is
\* skipped and ".." goes to the parent, which for the root is the root
RECURSIVE walk(_, _)
walk(comps, acc) ==
    IF Len(comps) = 0 THEN acc
    ELSE IF comps[1] = <<".", ".">>
         THEN walk(Tail(comps),
                   IF Len(acc) > 1 THEN SubSeq(acc, 1, Len(acc) - 1) ELSE acc)
    ELSE IF comps[1] = <<".">> THEN walk(Tail(comps), acc)
    ELSE walk(Tail(comps), Append(acc, comps[1]))

\* the location a path designates for a process whose working directory is
\* dir when the file system has no symbolic links: a relative path starts
\* from dir
resolve(dir, path) ==
    walk(components(IF is_absolute(path) THEN path ELSE dir \o <<"/">> \o path),
         <<>>)

\* the path designates the configuration directory or a location under it
LiesUnderConfigDir(dir, path) ==
    LET r == resolve(dir, path)
        c == components(ConfigDir)
    IN Len(c) <= Len(r) /\ SubSeq(r, 1, Len(c)) = c

(***************************************************************************)
(* C23: under a configuration with allow_absolute_paths = false,           *)
(* validate_path rejects every absolute path, and accepts every relative   *)
(* path that has no blocked extension, matches no ignore pattern and does  *)
(* not lie under the configuration directory.                              *)
(***************************************************************************)
C23_AbsoluteRejectedRelativeAccepted ==
    (Done("validate_path") /\ ~security.config.security.allow_absolute_paths) =>
        /\ is_absolute(probe.arg) => ~probe.res.ok
        /\ (/\ ~is_absolute(probe.arg)
            /\ ~ExtensionViolated(security, probe.arg)
            /\ ~IgnoreViolated(security, probe.arg)
            /\ ~LiesUnderConfigDir(cwd, probe.arg)) => probe.res = Ok(<<>>)

\* with allow_absolute_paths = false, validate_path has accepted the
\* relative path h/../a.t under a configuration that blocks .env, ignores
\* *.log and closes the configuration directory
C23_Witness ==
    /\ Done("validate_path")
    /\ ~security.config.security.allow_absolute_paths
    /\ ~security.config.security.allow_config_path_access
    /\ security.config.security.blocked_extensions = <<DotEnv>>
    /\ Len(security.ignore_patterns) > 0
    /\ probe.arg = Join(<< <<"h">>, <<".", ".">>, Path_a >>, "/")
    /\ probe.res = Ok(<<>>)

(***************************************************************************)
(* C24: when allow_config_path_access is false, validate_path rejects      *)
(* every path that designates a location under the configuration           *)
(* directory, relative paths that lead there from the working directory or *)
(* through ".." included.  The code does not do this: Path::starts_with    *)
(* compares the components of the path as written with those of the        *)
(* absolute configuration directory.                                       *)
(***************************************************************************)
C24_ConfigDirClosed ==
    (/\ Done("validate_path")
     /\ ~security.config.security.allow_config_path_access
     /\ LiesUnderConfigDir(cwd, probe.arg)) => ~probe.res.ok

\* the field of OperationPermissions that holds the permission of a kind
PermissionField(kind) ==
    CASE kind = "fs.makedir" -> "fs_makedir"
      [] kind = "fs.makefile" -> "fs_makefile"
      [] kind = "fs.writefile" -> "fs_writefile"
      [] kind = "fs.readfile" -> "fs_readfile"
      [] kind = "fs.listdir" -> "fs_listdir"
      [] kind = "shell" -> "shell"

(***************************************************************************)
(* C25: validate_operation is fail-closed.  For each of the six kinds      *)
(* fs.makedir, fs.makefile, fs.writefile, fs.readfile, fs.listdir and      *)
(* shell it succeeds exactly when the permission of that kind is true in   *)
(* the configuration; for every other string it fails, whatever the        *)
(* configuration, and the error names the string.                          *)
(***************************************************************************)
C25_OperationFailClosed ==
    Done("validate_operation") =>
        LET table == security.config.security.allowed_operations
        IN IF probe.arg \in OperationKinds
           THEN probe.res.ok = table[PermissionField(probe.arg)]
           ELSE /\ ~probe.res.ok
                /\ probe.res.e.msg = <<"Operation ", probe.arg, " is not allowed">>

\* validate_operation has refused a string that is none of the six kinds
\* under the table that permits everything, and in another behaviour
\* permitted a kind under a table that forbids the five others
C25_Witness ==
    /\ Done("validate_operation")
    /\ \/ /\ probe.arg = "fs_readfile"
          /\ security.config.security.allowed_operations = AllAllowed
          /\ ~probe.res.ok
       \/ /\ probe.arg = "fs.readfile"
          /\ security.config.security.allowed_operations
                = [f \in DOMAIN AllAllowed |-> f = "fs_readfile"]
          /\ probe.res.ok

\* the pattern compiles
WellFormed(pattern) == regex_new(pattern).ok

\* the pattern, which compiles, matches the command
Matches(pattern, command) == is_match(regex_new(pattern).v, command)

(***************************************************************************)
(* C26: is_whitelisted returns true if and only if at least one pattern of *)
(* the whitelist that compiles matches the command; a pattern that does    *)
(* not compile never matches, never makes the call fail (the result is a   *)
(* boolean) and does not keep the patterns after it from being tried.      *)
(***************************************************************************)
C26_WhitelistedIffSomePatternMatches ==
    Done("is_whitelisted") =>
        LET wl == security.config.whitelist
        IN /\ probe.res \in BOOLEAN
           /\ probe.res = (\E i \in 1..Len(wl) :
                              WellFormed(wl[i]) /\ Matches(wl[i], probe.arg))

\* is_whitelisted has returned true for a command matched by the second
\* pattern of a whitelist whose first pattern does not compile
C26_Witness ==
    /\ Done("is_whitelisted")
    /\ Len(security.config.whitelist) = 2
    /\ ~WellFormed(security.config.whitelist[1])
    /\ WellFormed(security.config.whitelist[2])
    /\ probe.res = TRUE

(***************************************************************************)
(* shell.rs: ShellExecutor::execute with its child process, the two pipes  *)
(* and the two threads that read them.  The child writes the lines of its  *)
(* script, line k being the text of the number k, some of which are not    *)
(* valid UTF-8, and terminates.  A pipe holds at most PipeCapacity lines.  *)
(* child.wrote is the set of the lines the child has put into a pipe.      *)
(***************************************************************************)
MaxWrites == 3      \* lines the child writes
PipeCapacity == 2   \* lines a pipe holds

Streams == {"stdout", "stderr"}

\* the scripts of the child: what it writes, in order
Scripts ==
    UNION {[1..n -> [stream : Streams, utf8 : BOOLEAN]] : n \in 0..MaxWrites}

\* std::process::ExitStatus: the child exits with code 0 or 3, or is
\* terminated by a signal
Killed == [success |-> FALSE, code |-> None]

ExitStatuses ==
    { [success |-> TRUE, code |-> Some(0)],
      [success |-> FALSE, code |-> Some(3)],
      Killed }

\* the text of line k
Line(k) == <<ToString(k)>>

\* ShellExecutor::execute is called with a command whose child will run
\* one of the scripts
InitRunner ==
    /\ AppAbsent
    /\ security = SecurityValidator_new(DefaultConfig, IgnoreFile)
    /\ cwd = WorkDir
    /\ probe = None
    /\ \E script \in Scripts, status \in ExitStatuses :
          child = [state |-> "none", script |-> script, at |-> 1,
                   wrote |-> {}, exit |-> status]
    /\ pipes = [s \in Streams |-> [buf |-> <<>>, rd_open |-> FALSE]]
    /\ drains = [s \in Streams |-> [pc |-> "none", result |-> <<>>]]
    /\ exec = [pc |-> "spawn", status |-> None, ret |-> None]
    /\ term = [s \in Streams |-> <<>>]

\* Command::spawn fails: execute returns the error
SpawnFails ==
    /\ exec.pc = "spawn"
    /\ exec' = [exec EXCEPT !.pc = "done",
                   !.ret = Some(Err(Error("io", <<"No such file or directory">>)))]
    /\ UNCHANGED <<appVars, security, cwd, probe, child, pipes, drains, term>>

\* Command::spawn succeeds: the child runs, the process holds the read ends
\* of the two pipes
SpawnOk ==
    /\ exec.pc = "spawn"
    /\ child' = [child EXCEPT !.state = "running"]
    /\ pipes' = [s \in Streams |-> [buf |-> <<>>, rd_open |-> TRUE]]
    /\ exec' = [exec EXCEPT !.pc = "spawn_stdout"]
    /\ UNCHANGED <<appVars, security, cwd, probe, drains, term>>

\* thread::spawn of the thread that reads the pipe of stdout
SpawnStdoutThread ==
    /\ exec.pc = "spawn_stdout"
    /\ drains' = [drains EXCEPT !.stdout.pc = "reading"]
    /\ exec' = [exec EXCEPT !.pc = "spawn_stderr"]
    /\ UNCHANGED <<appVars, security, cwd, probe, child, pipes, term>>

\* a faulty variant of SpawnStderrThread: the pipe of stderr is read only
\* after the pipe of stdout has been read to its end
SpawnStderrThread_after_stdout ==
    /\ exec.pc = "spawn_stderr"
    /\ drains.stdout.pc = "finished"
    /\ drains' = [drains EXCEPT !.stderr.pc = "reading"]
    /\ exec' = [exec EXCEPT !.pc = "wait"]
    /\ UNCHANGED <<appVars, security, cwd, probe, child, pipes, term>>

\* thread::spawn of the thread that reads the pipe of stderr
SpawnStderrThread ==
    /\ exec.pc = "spawn_stderr"
    /\ drains' = [drains EXCEPT !.stderr.pc = "reading"]
    /\ exec' = [exec EXCEPT !.pc = "wait"]
    /\ UNCHANGED <<appVars, security, cwd, probe, child, pipes, term>>

\* the child writes its next line: into the pipe when the pipe has room
\* (it waits when the pipe is full); when the read end of the pipe is
\* closed the write fails, and the child is terminated by SIGPIPE or goes
\* on after the error
ChildWrite ==
    /\ child.state = "running"
    /\ child.at <= Len(child.script)
    /\ LET w == child.script[child.at]
       IN IF pipes[w.stream].rd_open
          THEN /\ Len(pipes[w.stream].buf) < PipeCapacity
               /\ pipes' = [pipes EXCEPT ![w.stream].buf =
                               Append(@, [line |-> child.at, utf8 |-> w.utf8])]
               /\ child' = [child EXCEPT !.at = @ + 1,
                                         !.wrote = @ \cup {child.at}]
          ELSE /\ \/ child' = [child EXCEPT !.state = "exited", !.exit = Killed]
                  \/ child' = [child EXCEPT !.at = @ + 1]
               /\ UNCHANGED pipes
    /\ UNCHANGED <<appVars, security, cwd, probe, drains, exec, term>>

\* the child has written its script and terminates: the write ends of its
\* pipes are closed
ChildExit ==
    /\ child.state = "running"
    /\ child.at > Len(child.script)
    /\ child' = [child EXCEPT !.state = "exited"]
    /\ UNCHANGED <<appVars, security, cwd, probe, pipes, drains, exec, term>>

\* one iteration of `for line in reader.lines()` of the thread of stream
\* s: a line is echoed and appended with a newline; a line that is not
\* valid UTF-8 is an Err and ends the loop; the end of the stream (the pipe
\* is empty and the child has terminated) ends the loop.  At the end of
\* the loop the thread returns and its reader is dropped.
DrainStep(s) ==
    /\ drains[s].pc = "reading"
    /\ IF pipes[s].buf # <<>>
       THEN LET h == Head(pipes[s].buf)
            IN IF h.utf8
               THEN /\ term' = [term EXCEPT ![s] = @ \o Line(h.line) \o <<"\n">>]
                    /\ drains' = [drains EXCEPT
                                     ![s].result = @ \o Line(h.line) \o <<"\n">>]
                    /\ pipes' = [pipes EXCEPT ![s].buf = Tail(@)]
               ELSE /\ drains' = [drains EXCEPT ![s].pc = "finished"]
                    /\ pipes' = [pipes EXCEPT ![s] = [buf |-> <<>>,
                                                      rd_open |-> FALSE]]
                    /\ UNCHANGED term
       ELSE /\ child.state = "exited"
            /\ drains' = [drains EXCEPT ![s].pc = "finished"]
            /\ pipes' = [pipes EXCEPT ![s].rd_open = FALSE]
            /\ UNCHANGED term
    /\ UNCHANGED <<appVars, security, cwd, probe, child, exec>>

\* child.wait() returns the status of the terminated child
Wait ==
    /\ exec.pc = "wait"
    /\ child.state = "exited"
    /\ exec' = [exec EXCEPT !.pc = "join_stdout", !.status = Some(child.exit)]
    /\ UNCHANGED <<appVars, security, cwd, probe, child, pipes, drains, term>>

\* stdout_handle.join() returns
JoinStdout ==
    /\ exec.pc = "join_stdout"
    /\ drains.stdout.pc = "finished"
    /\ exec' = [exec EXCEPT !.pc = "join_stderr"]
    /\ UNCHANGED <<appVars, security, cwd, probe, child, pipes, drains, term>>

\* the line that tells the exit code
ExitMarker(code) ==
    <<"\n--- Process exited with code: ", ToString(code), " ---", "\n">>

\* the end of execute: what it appends to the output and prints for status
exit_info(status) ==
    IF ~status.success /\ IsSome(status.code)
    THEN ExitMarker(Unwrap(status.code))
    ELSE <<>>

\* stderr_handle.join() returns; the two results are concatenated, the exit
\* code is added and printed, and execute returns the output
JoinStderr ==
    /\ exec.pc = "join_stderr"
    /\ drains.stderr.pc = "finished"
    /\ exec' = [exec EXCEPT !.pc = "done",
                   !.ret = Some(Ok(drains.stdout.result \o drains.stderr.result
                                     \o exit_info(Unwrap(exec.status))))]
    /\ term' = [term EXCEPT !.stdout = @ \o exit_info(Unwrap(exec.status))]
    /\ UNCHANGED <<appVars, security, cwd, probe, child, pipes, drains>>

\* the steps of the thread that called execute
ExecStep ==
    \/ SpawnFails
    \/ SpawnOk
    \/ SpawnStdoutThread
    \/ SpawnStderrThread
    \/ Wait
    \/ JoinStdout
    \/ JoinStderr

\* the steps of the child
ChildStep == ChildWrite \/ ChildExit

NextRunner ==
    \/ ExecStep
    \/ ChildStep
    \/ \E s \in Streams : DrainStep(s)

SpecRunner == InitRunner /\ [][NextRunner]_vars

\* the operating system schedules the child and every thread
FairRunner ==
    /\ SpecRunner
    /\ WF_vars(ExecStep)
    /\ WF_vars(ChildStep)
    /\ \A s \in Streams : WF_vars(DrainStep(s))

\* execute has returned Ok(text)
Executed == exec.pc = "done" /\ Unwrap(exec.ret).ok

\* the lines of the script the child addresses to stream s that satisfy
\* keep, in the order of the script, each followed by a newline
RECURSIVE LinesFrom(_, _, _)
LinesFrom(k, s, keep) ==
    IF k > Len(child.script) THEN <<>>
    ELSE (IF child.script[k].stream = s /\ k \in keep
          THEN Line(k) \o <<"\n">> ELSE <<>>) \o LinesFrom(k + 1, s, keep)

\* the lines of the script that are valid UTF-8
ValidLines == {k \in 1..Len(child.script) : child.script[k].utf8}

(***************************************************************************)
(* C27: no output is lost.  execute returns only after the child has       *)
(* terminated and both threads have finished, and the text it returns      *)
(* contains every line the child wrote into either pipe, also a line that  *)
(* was still in a pipe when the child terminated.  (Asked of the lines     *)
(* that are valid UTF-8 only.)  The code loses lines: a line that is not   *)
(* valid UTF-8 ends the loop of the thread, and what the child wrote after *)
(* it into that pipe is dropped with the reader.                           *)
(***************************************************************************)
C27_NoOutputLost ==
    Executed =>
        /\ child.state = "exited"
        /\ \A s \in Streams : drains[s].pc = "finished"
        /\ \A k \in child.wrote \cap ValidLines :
              Contains(Unwrap(exec.ret).v, Line(k) \o <<"\n">>)

(***************************************************************************)
(* C28: the text execute returns is the lines of stdout in the order       *)
(* written, then the lines of stderr in the order written, each followed   *)
(* by a newline (and then the line of the exit code, if any): it depends   *)
(* on what the child writes to each stream, not on how the writes to the   *)
(* two streams interleave nor on when the threads read.  (Asked of the     *)
(* lines that are valid UTF-8 only.)  The code does not do this when a     *)
(* line is not valid UTF-8, because of the lines it loses then (C27).      *)
(***************************************************************************)
C28_StdoutThenStderr ==
    Executed =>
        \E marker \in {<<>>} \cup {ExitMarker(c) : c \in {0, 3}} :
            Unwrap(exec.ret).v
                = LinesFrom(1, "stdout", ValidLines)
                    \o LinesFrom(1, "stderr", ValidLines) \o marker

\* the text and the terminal have the line of the exit code
HasMarker ==
    \E c \in {0, 3} :
        /\ Contains(Unwrap(exec.ret).v, ExitMarker(c))
        /\ Contains(term.stdout, ExitMarker(c))

(***************************************************************************)
(* C29: execute appends the line "Process exited with code: N" to the text *)
(* it returns, and prints it, if and only if the status of the child is    *)
(* not a success, N being the exit code (3 for the exit code 3).  The code *)
(* does not do this for a child that a signal terminated: its status is    *)
(* not a success and has no code, and no line is added.                    *)
(***************************************************************************)
C29_ExitMarkerIffFailure ==
    Executed =>
        LET status == Unwrap(exec.status)
        IN /\ HasMarker <=> ~status.success
           /\ status.code = Some(3) =>
                 /\ Contains(Unwrap(exec.ret).v, ExitMarker(3))
                 /\ Contains(term.stdout, ExitMarker(3))

(***************************************************************************)
(* C30: no deadlock on the capacity of the pipes.  Under fair scheduling   *)
(* of the child, of the two threads and of the caller, a child that runs   *)
(* terminates (it never waits forever for room in a pipe) and execute      *)
(* returns.                                                                *)
(***************************************************************************)
C30_NoPipeDeadlock ==
    /\ <>(exec.pc = "done")
    /\ (child.state = "running") ~> (child.state = "exited")

\* the child waits for room in a full pipe
C30_Witness ==
    /\ child.state = "running"
    /\ child.at <= Len(child.script)
    /\ pipes[child.script[child.at].stream].rd_open
    /\ Len(pipes[child.script[child.at].stream].buf) = PipeCapacity

(***************************************************************************)
(* C31: if the child process cannot be spawned, ShellExecutor::execute     *)
(* returns an error; the run that dispatched the invocation ends with that *)
(* error and appends no tool-result, and the process survives: in          *)
(* interactive REPL mode the next prompt is offered.  As a property of the *)
(* step on which App::run returns the spawn error: the conversation is     *)
(* left as it was and the process is at the prompt of the REPL.            *)
(***************************************************************************)
\* run returns the error of a failed spawn on this step
ReturnsSpawnError ==
    /\ pc = "ProcessingToolCalls"
    /\ run_result = None
    /\ \E command \in {Cmd_ls} :
          run_result' = Some(ShellExecutor_execute(command, "spawn_error"))

C31_SpawnFailureNotFatal ==
    [][ReturnsSpawnError =>
          /\ messages' = messages
          /\ fs' = fs
          /\ pc' = "repl"]_vars

(***************************************************************************)
(* main.rs, run_interactive_mode: the Ctrl+C watcher.  The task is spawned *)
(* after the run of the initial prompt and before the loop of the REPL; it *)
(* waits for one Ctrl+C signal and then stores true in the flag.           *)
(***************************************************************************)
\* a run of App::run is under way
Running == pc \in {"AwaitingModel", "ProcessingToolCalls"}

\* the watcher has been spawned: the REPL is at its prompt, or in a run
\* that it started
WatcherSpawned == pc = "repl" \/ (Running /\ nPrompts > 0)

\* the watcher receives the signal and sets the flag
CtrlC ==
    /\ WatcherSpawned
    /\ ~ctrl_c_pressed
    /\ ctrl_c_pressed' = TRUE
    /\ UNCHANGED <<messages, accept_all, security, pc, tool_calls, idx,
                   run_result, fs, cwd, events, nCalls, nTools, nPrompts,
                   received, sent, vocabulary, probe, runnerVars>>

\* the program with the Ctrl+C watcher, under the default configuration
SpecCtrlC ==
    InitIn({WorkDir}, {DefaultConfig}, {{Shell_ls, Read_secrets}})
        /\ [][Next \/ CtrlC]_vars

(***************************************************************************)
(* C32: cooperative cancellation in the REPL.  Under every interleaving of *)
(* the watcher with the REPL: the step that sets the flag changes nothing  *)
(* else, so the model call, the approval prompt or the operation in flight *)
(* goes on as it would have; a run is left only by App::run returning; and *)
(* the flag is looked at between turns only: a run that returns while the  *)
(* flag is set is followed by the exit of the REPL, not by a prompt, and   *)
(* one that returns without error while it is clear by the prompt.         *)
(***************************************************************************)
C32_CooperativeCancellation ==
    [][/\ ctrl_c_pressed' # ctrl_c_pressed =>
             /\ ctrl_c_pressed'
             /\ UNCHANGED <<messages, pc, tool_calls, idx, run_result, fs,
                            events, nCalls, nTools, sent, received>>
       /\ (Running /\ ~Running') => (run_result = None /\ run_result' # None)
       /\ (Running /\ run_result' # None) =>
             /\ ctrl_c_pressed => pc' = "exited"
             /\ (~ctrl_c_pressed /\ Unwrap(run_result').ok) => pc' = "repl"
       /\ (Running /\ Running' /\ ctrl_c_pressed) =>
             (run_result' = None /\ Len(events') >= Len(events))]_vars

\* the flag was set during a run in which a command was executed and its
\* result appended; the run went on to the final answer and the REPL left
C32_Witness ==
    /\ ctrl_c_pressed
    /\ pc = "exited"
    /\ nPrompts = 1
    /\ run_result = Some(Ok(<<>>))
    /\ \E m \in 1..Len(messages) : messages[m].role = "tool"
    /\ messages[Len(messages)].role = "assistant"
    /\ messages[Len(messages)].content = Some(Answer)

(***************************************************************************)
(* The program with a model that emits invocations of a tool the program   *)
(* does not know, with a well-formed argument blob next to a shell         *)
(* command, or with a malformed one.                                       *)
(***************************************************************************)
Web_search == Shape("web_search", Blob(None, None, None))

UnknownToolVocabularies ==
    {{Web_search, Shell_ls}, {Shape("web_search", Malformed)}}

SpecUnknownTool ==
    InitIn({WorkDir}, {DefaultConfig}, UnknownToolVocabularies)
        /\ [][Next]_vars

\* the names of the match in App::run
KnownTools == {"execute_shell"} \cup FsTools

\* the positions in the log where the arguments of an invocation of an
\* unknown tool were parsed
UnknownToolParsed ==
    {k \in 1..Len(events) :
        /\ events[k].e = "parse"
        /\ Invocation(<<events[k].call, events[k].i>>).function.name
              \notin KnownTools}

\* the invocation parsed at position k is passed over: nothing else happens
\* for it, it has no tool-result, and what comes next is the next
\* invocation of the response or, after the last one, the next model call
\* of the same run
PassedOver(k) ==
    LET n == events[k].call
        i == events[k].i
        last == \A tc \in AllToolCalls : tc.id[1] = n => tc.id[2] <= i
    IN /\ k < Len(events)
       /\ events[k + 1].e = "skip"
       /\ EventsOf(n, i) = {k, k + 1}
       /\ ToolResults(<<n, i>>) = {}
       /\ k + 1 = Len(events) =>
             /\ run_result = None
             /\ pc = IF last THEN "AwaitingModel" ELSE "ProcessingToolCalls"
       /\ k + 1 < Len(events) =>
             /\ events[k + 2].e = IF last THEN "chat" ELSE "parse"
             /\ events[k + 2].call = IF last THEN n + 1 ELSE n
             /\ events[k + 2].i = IF last THEN 0 ELSE i + 1

(***************************************************************************)
(* C33: a tool invocation with a name outside the five known tools is a    *)
(* silent no-op: no approval prompt, no validation, no execution and no    *)
(* tool-result for it, the turn is not stopped, and the remaining          *)
(* invocations of the response are processed before the model is queried   *)
(* again.                                                                  *)
(***************************************************************************)
C33_UnknownToolIsNoOp == \A k \in UnknownToolParsed : PassedOver(k)

(***************************************************************************)
(* C33, amended: an invocation of an unknown tool whose argument blob is   *)
(* valid JSON is a silent no-op in that sense.  (The blob is parsed before *)
(* the name is looked at, and a blob that does not parse ends the turn     *)
(* with an error whatever the name.)                                       *)
(***************************************************************************)
C33_WellFormedUnknownToolIsNoOp ==
    \A k \in UnknownToolParsed : events[k].d = "ok" => PassedOver(k)

\* an unknown tool was passed over and the shell command that follows it
\* in the response was executed
C33_Witness ==
    \E k \in UnknownToolParsed :
        /\ events[k].d = "ok"
        /\ Effected(events[k].call, events[k].i + 1)

(***************************************************************************)
(* C34: at every model call the transcript sent is well-formed for tool    *)
(* use: each tool invocation of each assistant message of the transcript   *)
(* is answered by exactly one tool-result message with the same id, which  *)
(* follows that assistant message.  sent is the transcript handed to the   *)
(* last call of LlmClient::chat.                                           *)
(***************************************************************************)
\* the tool-result messages of the transcript t that answer the invocation
\* id and come after position m
AnswersIn(t, m, id) ==
    {a \in (m + 1)..Len(t) :
        t[a].role = "tool" /\ t[a].tool_call_id = Some(id)}

C34_TranscriptWellFormed ==
    \A m \in 1..Len(sent) :
        (sent[m].role = "assistant" /\ IsSome(sent[m].tool_calls)) =>
            \A tc \in Range(Unwrap(sent[m].tool_calls)) :
                /\ Cardinality(AnswersIn(sent, m, tc.id)) = 1
                /\ Cardinality(AnswersIn(sent, 0, tc.id)) = 1

(***************************************************************************)
(* C35: progress of the conversation loop.  Within one run the model is    *)
(* called again only after the previous response led to at least one       *)
(* tool-result message being appended: between two consecutive model calls *)
(* of the same run a tool-result was appended, so the loop never sends the *)
(* transcript again with nothing but the model's own response added.       *)
(***************************************************************************)
\* the model calls j and k are consecutive calls of one run: nothing
\* between them is a model call, a return of run or a prompt of the REPL
ConsecutiveCalls(j, k) ==
    /\ j < k
    /\ events[j].e = "chat"
    /\ events[k].e = "chat"
    /\ \A x \in (j + 1)..(k - 1) : events[x].e \notin {"chat", "return", "user"}

C35_CallAgainOnlyAfterToolResult ==
    \A k \in {x \in 1..Len(events) : events[x].e = "chat"} :
        \A j \in 1..(k - 1) :
            ConsecutiveCalls(j, k) =>
                \E x \in (j + 1)..(k - 1) : events[x].e = "tool_result"

(***************************************************************************)
(* C36: each tool invocation is dispatched at most once.  Over any         *)
(* sequence of runs, for every invocation of every assistant message of    *)
(* the conversation: its arguments are parsed, it is prompted for and its  *)
(* operation is performed at most once, and at most one tool-result        *)
(* message answers it.                                                     *)
(***************************************************************************)
\* how many events of kind e the invocation i of call n has
Count(n, i, e) == Cardinality({k \in EventsOf(n, i) : events[k].e = e})

C36_DispatchedAtMostOnce ==
    \A tc \in AllToolCalls :
        /\ Count(tc.id[1], tc.id[2], "parse") <= 1
        /\ Count(tc.id[1], tc.id[2], "prompt") <= 1
        /\ Count(tc.id[1], tc.id[2], "effect") <= 1
        /\ Count(tc.id[1], tc.id[2], "tool_result") <= 1
        /\ Cardinality(ToolResults(tc.id)) <= 1

\* an invocation of the first run was prompted for and executed, and a
\* later run, started from the REPL, has received a response with another
\* invocation
C36_Witness ==
    \E j, k \in 1..Len(events) :
        /\ j < k
        /\ events[j].e = "tool_result"
        /\ events[k].e = "user"
        /\ Count(events[j].call, events[j].i, "prompt") = 1
        /\ Cardinality(ToolResults(<<events[j].call, events[j].i>>)) = 1
        /\ \E tc \in AllToolCalls : tc.id[1] > events[k].call

(***************************************************************************)
(* The program with a model whose responses may carry textual content      *)
(* next to their tool invocations.                                         *)
(***************************************************************************)
Note == <<"I will list the files">>

\* a response with the tool invocations sh and textual content
annotated_response(n, sh) == [tool_response(n, sh) EXCEPT !.content = Some(Note)]

NextAnnotated ==
    \/ Next
    \/ /\ pc = "AwaitingModel"
       /\ \E sh \in ToolSeqs(vocabulary, MaxToolCalls - nTools) :
             ChatOk(annotated_response(nCalls + 1, sh))

SpecAnnotated ==
    InitIn({WorkDir}, {DefaultConfig}, {{Shell_ls, Read_secrets}})
        /\ [][NextAnnotated]_vars

\* r carries both tool invocations and textual content
Annotated(r) ==
    /\ IsSome(r.content)
    /\ IsSome(r.tool_calls)
    /\ Len(Unwrap(r.tool_calls)) > 0

(***************************************************************************)
(* C37: when a response carries both tool invocations and textual content  *)
(* the tool invocations take precedence: on its receipt run does not       *)
(* return and the tool loop is entered at its first invocation; and run    *)
(* returns on the receipt of a response, with a final answer, only if that *)
(* response has content and no tool-call list.                             *)
(***************************************************************************)
C37_ToolCallsTakePrecedence ==
    [][Len(received') > Len(received) =>
          LET r == received'[Len(received')]
          IN /\ Annotated(r) =>
                   /\ run_result' = None
                   /\ pc' = "ProcessingToolCalls"
                   /\ tool_calls' = Unwrap(r.tool_calls)
                   /\ idx' = 1
                   /\ messages'[Len(messages')] = r
             /\ run_result' # None =>
                   /\ run_result' = Some(Ok(<<>>))
                   /\ IsSome(r.content)
                   /\ ~IsSome(r.tool_calls)]_vars

\* a run in which a response with content and tool invocations was
\* received, its command executed, and a later response with content only
\* ended the run
C37_Witness ==
    /\ Len(received) >= 2
    /\ Annotated(received[1])
    /\ \E m \in 1..Len(messages) :
          messages[m].role = "tool" /\ messages[m].tool_call_id = Some(<<1, 1>>)
    /\ received[Len(received)].content = Some(Answer)
    /\ ~IsSome(received[Len(received)].tool_calls)
    /\ run_result = Some(Ok(<<>>))
    /\ nPrompts = 0

(***************************************************************************)
(* C38: in interactive REPL mode a run that ends in error never ends the   *)
(* REPL.  For every run, the run of the initial prompt included: on the    *)
(* step on which App::run returns an error the conversation is retained    *)
(* and the REPL offers the next prompt.                                    *)
(***************************************************************************)
\* App::run returns an error on this step
ReturnsError ==
    /\ Running
    /\ run_result = None
    /\ run_result' # None
    /\ ~run_result'[1].ok

C38_RunErrorKeepsRepl ==
    [][ReturnsError =>
          /\ pc' = "repl"
          /\ Len(messages') >= Len(messages)
          /\ \A m \in 2..Len(messages) : messages'[m] = messages[m]]_vars

====
